---- MODULE Spec2Model ----
(***************************************************************************)
(* Multi-agent Sokoban planner: the BDI agent loop of bdi.py (Agent.solve, *)
(* consume_message, broadcast, search), the memory ceiling set by          *)
(* searchclient.run_loop, and the heuristics that order the frontier.      *)
(* The successor function, the search kernel of the `strategy` module, the *)
(* memory module and the Manager are not part of the sources at hand; they *)
(* are modelled from the written specification.  The A-star kernel of      *)
(* emergency_aStar.py, the methods of one agent, the client of             *)
(* searchclient.py and the keypoint graph of heuristics.dGraph are also    *)
(* driven on their own (AStarSpec, UnitSpec, ClientSpec, GraphSpec).       *)
(***************************************************************************)
EXTENDS Integers, Sequences, FiniteSets, TLC

VARIABLES
    pc,                  \* position of the driver: "run_loop", "idle", "search", "returned"
    cur,                 \* name of the agent whose solve() is running or ran last
    agent,               \* the Agent objects by name: status, helping, saved_solution,
                         \* task, init_task, heuristic, name, color
    inbox,               \* the message bus handed to solve()
    inbox0,              \* the inbox as it was when the running/last solve() was entered
    searcher,            \* the search kernel built by solve()
    usage,               \* the last value returned by get_usage()
    client_MAX_USAGE,    \* the module global MAX_USAGE of searchclient.py
    ret                  \* outcome of the last call: what it returned or raised

vars == << pc, cur, agent, inbox, inbox0, searcher, usage, client_MAX_USAGE, ret >>

----------------------------------------------------------------------------
(* Bounds of the model *)

\* longest message bus the Manager lets grow before it drops the round's messages
MaxInbox == 2
\* deepest nesting of StateConcurrent wrappers around one task
MaxOverlay == 1

----------------------------------------------------------------------------
(* Python values *)

\* STATUS of utils
STATUS == [ok |-> "ok", fail |-> "fail", init |-> "init"]

\* the value None where a list of actions is expected, and a found path
NonePath == [isNone |-> TRUE, acts |-> << >>]
SomePath(p) == [isNone |-> FALSE, acts |-> p]

\* the value None where a timeline is expected, and a timeline
NoneTime == [isNone |-> TRUE, events |-> << >>]
SomeTime(tl) == [isNone |-> FALSE, events |-> tl]

\* the value False used for "no message"
False == [isMessage |-> FALSE]

\* None as object_problem or color of a message
None == "None"

Truthy(m) == m.isMessage

RECURSIVE SumSeq(_)
SumSeq(s) == IF s = << >> THEN 0 ELSE Head(s) + SumSeq(Tail(s))

RECURSIVE MinSeq(_)
MinSeq(s) == IF Len(s) = 1 THEN s[1]
             ELSE LET m == MinSeq(Tail(s)) IN IF s[1] <= m THEN s[1] ELSE m

RECURSIVE Concat(_)
Concat(ss) == IF ss = << >> THEN << >> ELSE Head(ss) \o Concat(Tail(ss))

Abs(x) == IF x < 0 THEN -x ELSE x

----------------------------------------------------------------------------
(* The level: a corridor of free cells, everything else is wall *)

FreeCells == { <<1, c>> : c \in 1..6 }

\* dictionaries key -> list of (position, color) keep their insertion order:
\* a sequence of entries [key, items]
Keys(d) == [i \in 1..Len(d) |-> d[i].key]
HasKey(d, k) == \E i \in 1..Len(d) : d[i].key = k
Get(d, k) == IF HasKey(d, k)
             THEN d[CHOOSE i \in 1..Len(d) : d[i].key = k].items
             ELSE << >>
Items(d) == Concat([i \in 1..Len(d) |-> d[i].items])
Entry(k, p, c) == [key |-> k, items |-> << [pos |-> p, color |-> c] >>]

----------------------------------------------------------------------------
(* States of the puzzle (StateInit / StateConcurrent of the actions module) *)

\* a state: the objects, the costs, the local time, the chain of actions and
\* of box layouts back to the root (the parent references), the overlays of
\* the StateConcurrent wrappers, and the explored set
NewState(ag, bx, gl) ==
    [agents |-> ag, boxes |-> bx, goals |-> gl, g |-> 0, h |-> 0, f |-> 0,
     t |-> 0, acts |-> << >>, trail |-> << bx >>, concurrent |-> << >>,
     explored |-> {}]

getGoalKeys(s) == Keys(s.goals)
getGoalsByKey(s, k) == Get(s.goals, k)
getBoxesByKey(s, k) == Get(s.boxes, k)
getAgentsByKey(s, k) == Get(s.agents, k)
agentColor(s) == { s.agents[i].items[1].color : i \in 1..Len(s.agents) }
getAgentsByColor(s, c) ==
    LET Has(e) == e.items[1].color = c
    IN  Keys(SelectSeq(s.agents, Has))

\* every goal cell holds a box of the goal's key and color
isGoalState(s) ==
    \A i \in 1..Len(s.goals) : \A j \in 1..Len(s.goals[i].items) :
        \E b \in 1..Len(getBoxesByKey(s, s.goals[i].key)) :
            getBoxesByKey(s, s.goals[i].key)[b] = s.goals[i].items[j]

\* the minimal representation stored in `explored`: the agents and the boxes
minimalRep(s) == << s.agents, s.boxes >>

\* 4-neighbourhood of two cells
Neighbour(p, q) == Abs(p[1] - q[1]) + Abs(p[2] - q[2]) = 1

----------------------------------------------------------------------------
(* heuristics.py *)

manha_dist(a, b) == Abs(a[1] - b[1]) + Abs(a[2] - b[2])

\* the two lists one pass of the loop over the boxes of a key appends to, for
\* one goal: box_goal_costs and the new entries of agt_box_costs.
\* guarded: EasyRule looks for agents only when the goal's color has an agent
BoxLoop(s, goal, boxes, guarded) ==
    LET look == (~guarded) \/ goal.color \in agentColor(s)
        agent_keys == getAgentsByColor(s, goal.color)
        Kept(b) == ~(look /\ manha_dist(goal.pos, b.pos) = 0)
        kept == SelectSeq(boxes, Kept)
    IN  [box_goal_costs |-> [i \in 1..Len(kept) |-> manha_dist(kept[i].pos, goal.pos)],
         agt |-> IF look
                 THEN Concat([i \in 1..Len(kept) |->
                        [j \in 1..Len(agent_keys) |->
                            manha_dist(getAgentsByKey(s, agent_keys[j])[1].pos,
                                       kept[i].pos)]])
                 ELSE << >>]

\* box_goal_cost += min(box_goal_costs) * factor, and the agent distances
\* found for this goal join agt_box_costs
AddGoal(acc, r, factor) ==
    [acc EXCEPT !.box_goal_cost = @ + (IF Len(r.box_goal_costs) > 0
                                       THEN MinSeq(r.box_goal_costs) * factor
                                       ELSE 0),
                !.agt_box_costs = @ \o r.agt]

\* the loop over the goals of one key, from goal number j on; acc carries
\* box_goal_cost and the list agt_box_costs; factor multiplies the minimum
RECURSIVE GoalLoop(_, _, _, _, _, _)
GoalLoop(s, key, j, acc, guarded, factor) ==
    IF j > Len(getGoalsByKey(s, key)) THEN acc
    ELSE GoalLoop(s, key, j + 1,
                  AddGoal(acc,
                          BoxLoop(s, getGoalsByKey(s, key)[j],
                                  getBoxesByKey(s, key), guarded),
                          factor),
                  guarded, factor)

\* str.lower() on the keys of the levels
Lower(k) == CASE k = "A" -> "a" [] k = "B" -> "b" [] OTHER -> k

\* the factor WeightedRule applies to the goals of a key
WeightFactor(heur, key) ==
    IF heur.kind = "WeightedRule" /\ Lower(key) = heur.weight THEN 10 ELSE 1

\* the loop over the goal keys, from key number i on
\* agt_box_cost += sum(agt_box_costs), after the goals of a key
AddAgents(a1) ==
    IF Len(a1.agt_box_costs) > 0
    THEN [a1 EXCEPT !.agt_box_cost = @ + SumSeq(a1.agt_box_costs)]
    ELSE a1

\* the loop over the goal keys, from key number i on
RECURSIVE KeyLoop(_, _, _, _)
KeyLoop(s, heur, i, acc) ==
    IF i > Len(getGoalKeys(s)) THEN acc
    ELSE KeyLoop(s, heur, i + 1,
                 AddAgents(GoalLoop(s, getGoalKeys(s)[i], 1, acc,
                                    heur.kind = "EasyRule",
                                    WeightFactor(heur, getGoalKeys(s)[i]))))

\* EasyRule.__call__ and WeightedRule.__call__ on one state: h and f written
EasyRule == [kind |-> "EasyRule", weight |-> None]
WeightedRule(w) == [kind |-> "WeightedRule", weight |-> w]

\* state.h = box_goal_cost + agt_box_cost; state.f = state.h * 5 + state.g
WithCosts(s, acc) ==
    [s EXCEPT !.h = acc.box_goal_cost + acc.agt_box_cost,
              !.f = (acc.box_goal_cost + acc.agt_box_cost) * 5 + s.g]

Score(heur, s) ==
    WithCosts(s, KeyLoop(s, heur, 1,
                         [box_goal_cost |-> 0, agt_box_cost |-> 0,
                          agt_box_costs |-> << >>]))

----------------------------------------------------------------------------
(* The successor function of the actions module *)

\* N, E, S, W
Dirs == << <<-1, 0>>, <<0, 1>>, <<1, 0>>, <<0, -1>> >>

Plus(p, d) == << p[1] + d[1], p[2] + d[2] >>
Minus(p, d) == << p[1] - d[1], p[2] - d[2] >>

\* the boxes as the overlays of a StateConcurrent place them at local time t:
\* the external object of an overlay entry at time t occupies the listed cell
RECURSIVE ApplyOverlays(_, _, _)
ApplyOverlays(boxes, overlays, t) ==
    IF overlays = << >> THEN boxes
    ELSE LET o == Head(overlays)
             moved == IF t \in DOMAIN o
                      THEN [i \in 1..Len(boxes) |->
                              IF boxes[i].key = o[t].key
                              THEN [boxes[i] EXCEPT !.items[1].pos = o[t].pos]
                              ELSE boxes[i]]
                      ELSE boxes
         IN  ApplyOverlays(moved, Tail(overlays), t)

Occupied(agents, boxes) ==
    { Items(agents)[i].pos : i \in 1..Len(Items(agents)) } \cup
    { Items(boxes)[i].pos : i \in 1..Len(Items(boxes)) }

IsFree(agents, boxes, p) == p \in FreeCells /\ p \notin Occupied(agents, boxes)

\* the boxes at cell p that the agent of color c may move
BoxAt(boxes, p, c) ==
    { ij \in { <<i, j>> : i \in 1..Len(boxes), j \in 1..Len(Items(boxes)) } :
        /\ ij[2] <= Len(boxes[ij[1]].items)
        /\ boxes[ij[1]].items[ij[2]].pos = p
        /\ boxes[ij[1]].items[ij[2]].color = c }

\* the child of s in which agent number a stands at p2 and the boxes are bx2
Child(s, a, p2, bx2, act) ==
    [s EXCEPT !.agents[a].items[1].pos = p2, !.boxes = bx2, !.g = s.g + 1,
              !.t = s.t + 1, !.acts = Append(s.acts, act),
              !.trail = Append(s.trail, bx2), !.explored = {}]

\* the legal successors of s by agent number a in direction d: a move, a push
\* of the adjacent box of the agent's color, a pull of the box behind
Successors(s, a, d) ==
    LET bx == ApplyOverlays(s.boxes, s.concurrent, s.t)
        me == s.agents[a].items[1]
        to == Plus(me.pos, Dirs[d])
        far == Plus(to, Dirs[d])
        back == Minus(me.pos, Dirs[d])
        pushed == BoxAt(bx, to, me.color)
        pulled == BoxAt(bx, back, me.color)
        move == IF IsFree(s.agents, bx, to)
                THEN << Child(s, a, to, bx, << "Move", d >>) >> ELSE << >>
        push == IF pushed # {} /\ IsFree(s.agents, bx, far)
                THEN LET ij == CHOOSE x \in pushed : TRUE
                     IN << Child(s, a, to,
                               [bx EXCEPT ![ij[1]].items[ij[2]].pos = far],
                               << "Push", d >>) >>
                ELSE << >>
        pull == IF pulled # {} /\ IsFree(s.agents, bx, to)
                THEN LET ij == CHOOSE x \in pulled : TRUE
                     IN << Child(s, a, to,
                               [bx EXCEPT ![ij[1]].items[ij[2]].pos = me.pos],
                               << "Pull", d >>) >>
                ELSE << >>
    IN  move \o push \o pull

AllSuccessors(s) ==
    Concat([k \in 1..(Len(s.agents) * Len(Dirs)) |->
              Successors(s, ((k - 1) \div Len(Dirs)) + 1, ((k - 1) % Len(Dirs)) + 1)])

\* the children that are not in `seen`, each layout once, in order
RECURSIVE Fresh(_, _)
Fresh(children, seen) ==
    IF children = << >> THEN << >>
    ELSE IF minimalRep(Head(children)) \in seen
         THEN Fresh(Tail(children), seen)
         ELSE << Head(children) >>
              \o Fresh(Tail(children), seen \cup {minimalRep(Head(children))})

\* state.explore(): the legal children not explored before; the expanded state
\* and its children join the explored set shared along the search
Explored(kids, seen) ==
    [children |-> kids,
     explored |-> seen \cup { minimalRep(kids[i]) : i \in 1..Len(kids) }]

explore(s, explored) ==
    Explored(Fresh(AllSuccessors(s), explored \cup {minimalRep(s)}),
             explored \cup {minimalRep(s)})

\* state.bestPath(): the actions from the root; bestPath(format=key): the
\* position of the object `key` at every time step from the root
bestPath(s) == s.acts
bestPathFormat(s, key) ==
    [i \in 1..Len(s.trail) |-> << i - 1, Get(s.trail[i], key)[1].pos >>]

\* state.forget_exploration()
forget_exploration(s) == [s EXCEPT !.explored = {}]

\* StateConcurrent(task, concurrent): the task under one more overlay
StateConcurrent(s, concurrent) == [s EXCEPT !.concurrent = Append(@, concurrent)]

----------------------------------------------------------------------------
(* bdi.py: Message *)

\* Message.__init__: the five fields as given; IncorrectTask when the status
\* is ok and there is no time
Message(object_problem, color, requester, st, time) ==
    [isMessage |-> TRUE, object_problem |-> object_problem, color |-> color,
     requester |-> requester, status |-> st, time |-> time]
MessageRaises_never(st, time) == "no"
MessageRaises(st, time) ==
    IF st = STATUS.ok /\ time.isNone THEN "IncorrectTask" ELSE "no"

----------------------------------------------------------------------------
(* bdi.py: Agent *)

\* Agent.__init__
NewAgent(t) ==
    [task |-> t, init_task |-> t, heuristic |-> EasyRule,
     color |-> t.goals[1].items[1].color, name |-> t.agents[1].key,
     status |-> STATUS.init, helping |-> False, saved_solution |-> NonePath]

\* Agent.track_back: the positions of the agent in the explored layouts (the
\* code walks a set, so the order of the list it builds is not fixed; only
\* membership is used by the caller)
track_back(o) ==
    { rep[1][1].items[1].pos : rep \in { r \in o.task.explored : r[1][1].key = o.name } }

\* Agent._identify_problem: the first box of another color, in the order of
\* task.boxes, that is a neighbour of a traced position; None when there is none
NoProblem == [isNone |-> TRUE, box |-> None, color |-> None]
_identify_problem(o) ==
    LET Other(e) == e.items[1].color # o.color
        boxes == SelectSeq(o.task.boxes, Other)
        agent_trace == track_back(o)
        Hit(i) == \E agent_pos \in agent_trace :
                     Neighbour(boxes[i].items[1].pos, agent_pos)
        hits == { i \in 1..Len(boxes) : Hit(i) }
    IN  IF hits = {} THEN NoProblem
        ELSE LET i == CHOOSE x \in hits : \A y \in hits : x <= y
             IN  [isNone |-> FALSE, box |-> boxes[i].key,
                  color |-> boxes[i].items[1].color]

\* an overlay with an entry for every event from number i on
Compress_all(events, i, curr_pos, object_problem, concurrent) ==
    [t \in { events[j][1] : j \in i..Len(events) } |->
        [key |-> object_problem,
         pos |-> events[CHOOSE j \in i..Len(events) : events[j][1] = t][2]]]

\* the loop of consume_message over message.time from event number i on:
\* an entry per event whose position differs from the last recorded one
RECURSIVE Compress(_, _, _, _, _)
Compress(events, i, curr_pos, object_problem, concurrent) ==
    IF i > Len(events) THEN concurrent
    ELSE LET pos == events[i][2]
         IN  IF curr_pos[1] # pos[1] \/ curr_pos[2] # pos[2]
             THEN Compress(events, i + 1, pos, object_problem,
                           (events[i][1] :> [key |-> object_problem, pos |-> pos])
                               @@ concurrent)
             ELSE Compress(events, i + 1, curr_pos, object_problem, concurrent)

\* a consume_message that keeps the task of a helper as it is
consume_message_keeptask(o, message) ==
    IF o.status = STATUS.fail
    THEN [obj |-> o, exc |-> "TypeError"]
    ELSE [obj |-> [o EXCEPT !.helping = message,
                            !.heuristic = WeightedRule(message.object_problem)],
          exc |-> "no"]

\* Agent.consume_message: the agent afterwards and the exception raised, if any
consume_message(o, message) ==
    IF o.status = STATUS.fail
    THEN IF message.time.isNone
         THEN [obj |-> o, exc |-> "TypeError"]
         ELSE IF message.time.events = << >>
         THEN [obj |-> o, exc |-> "IndexError"]
         ELSE LET concurrent == Compress(message.time.events, 1,
                                         message.time.events[1][2],
                                         message.object_problem, << >>)
              IN  [obj |-> [o EXCEPT !.task =
                              [StateConcurrent(o.task, concurrent) EXCEPT !.t = 0]],
                   exc |-> "no"]
    ELSE [obj |-> [o EXCEPT !.helping = message,
                            !.task = o.init_task,
                            !.heuristic = WeightedRule(message.object_problem)],
          exc |-> "no"]

\* Agent._sos: the SOS message, or the exception of unpacking None
_sos(o) ==
    LET p == _identify_problem(o)
    IN  IF p.isNone THEN [msg |-> False, exc |-> "TypeError"]
        ELSE [msg |-> Message(p.box, p.color, o.name, o.status, NoneTime),
              exc |-> "no"]

\* Agent._send_success: the message built from the stored request; helping cleared
_send_success_kept(o) ==
    [obj |-> o, exc |-> "no",
     msg |-> Message(o.helping.object_problem, o.helping.color, o.helping.requester,
                     o.status,
                     SomeTime(bestPathFormat(o.task, o.helping.object_problem)))]
_send_success(o) ==
    LET time_pos == SomeTime(bestPathFormat(o.task, o.helping.object_problem))
        message == Message(o.helping.object_problem, o.helping.color,
                           o.helping.requester, o.status, time_pos)
    IN  IF MessageRaises(o.status, time_pos) # "no"
        THEN [obj |-> o, msg |-> False, exc |-> MessageRaises(o.status, time_pos)]
        ELSE [obj |-> [o EXCEPT !.helping = False], msg |-> message, exc |-> "no"]

\* Agent.broadcast, the branch of a failed agent, r being what _sos() gave
FailBranch(o, r) ==
    IF r.exc # "no"
    THEN [obj |-> o, msg |-> False, exc |-> r.exc]
    ELSE [obj |-> [o EXCEPT !.task = forget_exploration(@)],
          msg |-> r.msg, exc |-> "no"]

\* `if self.helping:` after the branch of a failed agent, not instead of it
HelpingBranch(s1) ==
    IF s1.exc # "no" THEN s1
    ELSE IF Truthy(s1.obj.helping) THEN _send_success(s1.obj)
    ELSE s1

broadcast(o) ==
    HelpingBranch(IF o.status = STATUS.fail
                  THEN FailBranch(o, _sos(o))
                  ELSE [obj |-> o, msg |-> False, exc |-> "no"])

----------------------------------------------------------------------------
(* The search kernel of the strategy module, A-star variant *)

NoSearcher == [built |-> FALSE]

\* BestFirstSearch(init_state, heuristic): the initial state is scored and
\* seeds the frontier
Seeded(heur, leaf) ==
    [built |-> TRUE, heuristic |-> heur, leaf |-> leaf, count |-> 0,
     frontier |-> << [f |-> leaf.f, count |-> 0, state |-> leaf] >>]

BestFirstSearch(init_state, heur) ==
    Seeded(heur, [Score(heur, init_state) EXCEPT !.explored = {}])

\* explore_and_add(): the leaf is expanded, its children are scored and put
\* into the frontier under (priority, tie-break counter)
FrontierEntry(c, count) == [f |-> c.f, count |-> count, state |-> c]

PutChildren(k, r) ==
    [kernel |-> [k EXCEPT
                   !.count = @ + Len(r.children),
                   !.frontier = @ \o
                      [i \in 1..Len(r.children) |->
                         FrontierEntry(Score(k.heuristic, r.children[i]),
                                       k.count + i)]],
     explored |-> r.explored]

explore_and_add(k, explored) == PutChildren(k, explore(k.leaf, explored))

frontier_empty(k) == k.frontier = << >>

\* the position in the frontier of the least entry by (priority, counter)
Least(frontier) ==
    CHOOSE i \in 1..Len(frontier) : \A j \in 1..Len(frontier) :
        \/ frontier[i].f < frontier[j].f
        \/ frontier[i].f = frontier[j].f /\ frontier[i].count <= frontier[j].count

RemoveAt(q, i) == [j \in 1..(Len(q) - 1) |-> IF j < i THEN q[j] ELSE q[j + 1]]

\* get_and_remove_leaf(): the least entry leaves the frontier and becomes the leaf
Pop(k, i) == [k EXCEPT !.leaf = k.frontier[i].state,
                       !.frontier = RemoveAt(k.frontier, i)]

get_and_remove_leaf(k) == Pop(k, Least(k.frontier))

walk_best_path(k) == bestPath(k.leaf)

----------------------------------------------------------------------------
(* The memory governor *)

\* MAX_USAGE of the memory module, bound in bdi.py when it is imported
MAX_USAGE == 2048

\* the values get_usage() may report, in MB: one above the ceiling, one below
\* it and above the smaller --max-memory
UsageReadings == << 2049, 33 >>
Usages == { UsageReadings[i] : i \in 1..Len(UsageReadings) }

\* the values of --max-memory handed to run_loop
Memories == {32, 2048}

----------------------------------------------------------------------------
(* The levels and the subtasks the agents are built with *)

Agents == {"0", "1"}
P(c) == << 1, c >>

\* 1: agent 0 (red) must pull A to cell 3 and is blocked by the blue box B,
\*    agent 1 (blue) can pull B to cell 5
\* 2: neither box can reach its goal; each agent stands next to the other's box
\* 3: agent 0 cannot move and no blue box is next to it; B lies on its goal
Levels == {"help", "stuck", "walled"}

LevelTask(l, a) ==
    CASE l = "help" ->
            LET bx == << Entry("A", P(2), "red"), Entry("B", P(4), "blue") >>
            IN  IF a = "0"
                THEN NewState(<< Entry("0", P(3), "red") >>, bx,
                              << Entry("A", P(3), "red") >>)
                ELSE NewState(<< Entry("1", P(5), "blue") >>, bx,
                              << Entry("B", P(5), "blue") >>)
      [] l = "stuck" ->
            LET bx == << Entry("A", P(2), "red"), Entry("B", P(4), "blue") >>
            IN  IF a = "0"
                THEN NewState(<< Entry("0", P(5), "red") >>, bx,
                              << Entry("A", P(6), "red") >>)
                ELSE NewState(<< Entry("1", P(3), "blue") >>, bx,
                              << Entry("B", P(1), "blue") >>)
      [] l = "walled" ->
            LET bx == << Entry("A", P(2), "red"), Entry("B", P(3), "blue") >>
            IN  IF a = "0"
                THEN NewState(<< Entry("0", P(1), "red") >>, bx,
                              << Entry("A", P(3), "red") >>)
                ELSE NewState(<< Entry("1", P(4), "blue") >>, bx,
                              << Entry("B", P(3), "blue") >>)

----------------------------------------------------------------------------
(* The program *)

NoCall == [op |-> "none", agent |-> "none", path |-> NonePath, msg |-> False,
           exc |-> "no", consumed |-> 0, searched |-> FALSE]

Init ==
    /\ pc = "run_loop"
    /\ cur = "none"
    /\ \E l \in Levels : agent = [a \in Agents |-> NewAgent(LevelTask(l, a))]
    /\ inbox = << >>
    /\ inbox0 = << >>
    /\ searcher = NoSearcher
    /\ usage = 0
    /\ client_MAX_USAGE = None
    /\ ret = NoCall

\* run_loop(strategy, memory): the global MAX_USAGE of searchclient.py is set,
\* then the client and the Manager are built and the rounds begin
run_loop(memory) ==
    /\ pc = "run_loop"
    /\ client_MAX_USAGE' = memory
    /\ pc' = "idle"
    /\ UNCHANGED << cur, agent, inbox, inbox0, searcher, usage, ret >>

\* the guard of the first return of solve
Cached_anyhelp(o) == o.status = STATUS.ok /\ Truthy(o.helping)
Cached(o) == o.status = STATUS.ok /\ ~Truthy(o.helping)

\* solve, first branch: the cached plan and whatever broadcast() returns
\* `return path, self.broadcast()`: b is what broadcast() gave; an exception
\* it raised leaves solve without a value
Return(a, b, path, consumed, searched) ==
    /\ agent' = [agent EXCEPT ![a] = b.obj]
    /\ ret' = [op |-> "solve", agent |-> a,
               path |-> IF b.exc = "no" THEN path ELSE NonePath,
               msg |-> b.msg, exc |-> b.exc, consumed |-> consumed,
               searched |-> searched]

SolveCached(a) ==
    /\ pc = "idle"
    /\ Cached(agent[a])
    /\ Return(a, broadcast(agent[a]), agent[a].saved_solution, 0, FALSE)
    /\ pc' = "returned"
    /\ cur' = a
    /\ inbox0' = inbox
    /\ UNCHANGED << inbox, searcher, usage, client_MAX_USAGE >>

\* the status solve assigns after the search: fail exactly for the path None
StatusFor_inverted(path) == IF path.isNone THEN STATUS.ok ELSE STATUS.fail
StatusFor(path) == IF path.isNone THEN STATUS.fail ELSE STATUS.ok

\* the end of solve once search has returned `path` with the agent in state o:
\* status and saved_solution are assigned, then broadcast() is returned
Communicate(a, o, path, consumed) ==
    /\ Return(a, broadcast([o EXCEPT !.status = StatusFor(path),
                                      !.saved_solution = path]),
              path, consumed, TRUE)
    /\ pc' = "returned"
    /\ searcher' = NoSearcher

\* the first message of the inbox whose requester is the agent, 0 for none
FirstFor(box, name) ==
    IF \E i \in 1..Len(box) : box[i].requester = name
    THEN CHOOSE i \in 1..Len(box) :
            /\ box[i].requester = name
            /\ \A j \in 1..(i - 1) : box[j].requester # name
    ELSE 0

\* the inbox part of solve: the agent afterwards, the inbox afterwards, the
\* position (from 1) of the message handed to consume_message, the exception.
\* to_del is the position from 0, so the first message leaves it falsy; any
\* other position reaches `del inbox[message]`, a list indexed by a Message
Consumed(r, box, i, to_del) ==
    [obj |-> r.obj, inbox |-> box, consumed |-> i,
     exc |-> IF r.exc # "no" THEN r.exc
             ELSE IF to_del # 0 THEN "TypeError" ELSE "no"]

ReadMessage(o, box, i) ==
    IF box = << >> \/ o.status # STATUS.fail \/ i = 0
    THEN [obj |-> o, inbox |-> box, consumed |-> 0, exc |-> "no"]
    ELSE Consumed(consume_message(o, box[i]), box, i, i - 1)

ReadInbox(o, box) == ReadMessage(o, box, FirstFor(box, o.name))

\* solve past the first branch: the inbox is read, the kernel is built over
\* the task, and search() begins; a root that is a goal state ends it with []
\* `path = self.search(searcher)` up to the loop: k is the kernel built over
\* the task the inbox part left
EnterSearch(a, r, k) ==
    IF isGoalState(k.leaf)
    THEN Communicate(a, r.obj, SomePath(<< >>), r.consumed)
    ELSE /\ agent' = [agent EXCEPT ![a] = r.obj]
         /\ ret' = [op |-> "solve", agent |-> a, path |-> NonePath,
                    msg |-> False, exc |-> "no",
                    consumed |-> r.consumed, searched |-> TRUE]
         /\ pc' = "search"
         /\ searcher' = k

\* "execute intention", r being what the inbox part gave: an exception it
\* raised ends solve
Intend(a, r) ==
    /\ inbox' = r.inbox
    /\ IF r.exc # "no"
       THEN /\ agent' = [agent EXCEPT ![a] = r.obj]
            /\ ret' = [op |-> "solve", agent |-> a, path |-> NonePath,
                       msg |-> False, exc |-> r.exc,
                       consumed |-> r.consumed, searched |-> FALSE]
            /\ pc' = "returned"
            /\ searcher' = NoSearcher
       ELSE EnterSearch(a, r, BestFirstSearch(r.obj.task, r.obj.heuristic))

SolveStart(a) ==
    /\ pc = "idle"
    /\ ~Cached(agent[a])
    /\ Len(agent[a].task.concurrent) < MaxOverlay
          \/ FirstFor(inbox, a) = 0 \/ agent[a].status # STATUS.fail
    /\ cur' = a
    /\ inbox0' = inbox
    /\ Intend(a, ReadInbox(agent[a], inbox))
    /\ UNCHANGED << usage, client_MAX_USAGE >>

\* self.task = strategy.leaf: the goal leaf, whose explored set is the one
\* shared along the search, becomes the task
TakeLeaf_kept(o, leaf) == o
TakeLeaf(o, leaf) == [o EXCEPT !.task = [leaf EXCEPT !.explored = o.task.explored]]

\* one pass of the loop of Agent.search, and the rest of solve when it ends
\* the pass after get_and_remove_leaf(): a goal leaf ends the search
Popped(a, o1, k2) ==
    IF isGoalState(k2.leaf)
    THEN Communicate(a, TakeLeaf(o1, k2.leaf),
                     SomePath(walk_best_path(k2)), ret.consumed)
    ELSE /\ agent' = [agent EXCEPT ![a] = o1]
         /\ searcher' = k2
         /\ UNCHANGED << pc, ret >>

\* the pass after explore_and_add(), e being what it gave: an empty frontier
\* ends the search with None
Expanded(a, o, e) ==
    IF frontier_empty(e.kernel)
    THEN Communicate(a, [o EXCEPT !.task.explored = e.explored], NonePath,
                     ret.consumed)
    ELSE Popped(a, [o EXCEPT !.task.explored = e.explored],
                get_and_remove_leaf(e.kernel))

SearchStep(u) ==
    /\ pc = "search"
    /\ usage' = u
    /\ IF u > MAX_USAGE
       THEN /\ ret' = [ret EXCEPT !.exc = "ResourceLimit"]
            /\ pc' = "returned"
            /\ searcher' = NoSearcher
            /\ agent' = agent
       ELSE Expanded(cur, agent[cur],
                     explore_and_add(searcher, agent[cur].task.explored))
    /\ UNCHANGED << cur, inbox, inbox0, client_MAX_USAGE >>

----------------------------------------------------------------------------
(* The Manager's round loop around the agents *)

\* the SOS of an agent of the level that is not one of the modelled two
OtherMessages == { Message("A", "red", "2", STATUS.fail, NoneTime) }

\* a call has returned or raised: a message returned by solve() joins the
\* bus, and the Manager goes on with its loop
ManagerAppend ==
    /\ pc = "returned"
    /\ inbox' = IF ret.exc = "no" /\ ret.op = "solve" /\ Truthy(ret.msg)
                THEN Append(inbox, ret.msg) ELSE inbox
    /\ pc' = "idle"
    /\ cur' = "none"
    /\ inbox0' = << >>
    /\ usage' = 0
    /\ ret' = NoCall
    /\ UNCHANGED << agent, searcher, client_MAX_USAGE >>

\* a request on the bus is routed to an agent of the color of the blocking
\* box that is not waiting for help itself, which takes it with consume_message
Deliver(a, i) ==
    /\ pc = "idle"
    /\ i \in 1..Len(inbox)
    /\ inbox[i].status = STATUS.fail
    /\ agent[a].status # STATUS.fail
    /\ inbox[i].color = agent[a].color
    /\ inbox[i].requester # a
    /\ LET r == consume_message(agent[a], inbox[i])
       IN  /\ agent' = [agent EXCEPT ![a] = r.obj]
           /\ ret' = [op |-> "consume_message", agent |-> a, path |-> NonePath,
                      msg |-> inbox[i], exc |-> r.exc, consumed |-> 0,
                      searched |-> FALSE]
    /\ pc' = "returned"
    /\ cur' = a
    /\ UNCHANGED << inbox, inbox0, searcher, usage, client_MAX_USAGE >>

\* an agent outside the modelled two puts its request on the bus
Post(m) ==
    /\ pc = "idle"
    /\ Len(inbox) < MaxInbox
    /\ inbox' = Append(inbox, m)
    /\ UNCHANGED << pc, cur, agent, inbox0, searcher, usage, client_MAX_USAGE, ret >>

\* the messages of a round are dropped
Expire ==
    /\ pc = "idle"
    /\ inbox # << >>
    /\ inbox' = << >>
    /\ UNCHANGED << pc, cur, agent, inbox0, searcher, usage, client_MAX_USAGE, ret >>

\* the Manager calls solve(inbox) of an agent while the bus has room for
\* the message it may return
Solve(a) ==
    \/ Len(inbox) < MaxInbox /\ SolveCached(a)
    \/ Len(inbox) < MaxInbox /\ SolveStart(a)

Next ==
    \/ \E m \in Memories : run_loop(m)
    \/ \E a \in Agents : Solve(a)
    \/ \E u \in Usages : SearchStep(u)
    \/ ManagerAppend
    \/ \E a \in Agents, i \in 1..MaxInbox : Deliver(a, i)
    \/ \E m \in OtherMessages : Post(m)
    \/ Expire

Spec == Init /\ [][Next]_vars

\* a search that has begun runs on: Agent.search is a loop without suspension
FairSpec ==
    Spec /\ WF_vars(\E i \in 1..Len(UsageReadings) : SearchStep(UsageReadings[i]))

----------------------------------------------------------------------------
(* Properties *)

\* the step is the return (or the raise) of solve() of agent a
SolveEnds(a) ==
    /\ pc \in {"idle", "search"}
    /\ pc' = "returned"
    /\ cur' = a
    /\ ret'.op = "solve"

\* the step is consume_message(message) called on agent a by the Manager
Accepts(a) ==
    /\ pc = "idle"
    /\ pc' = "returned"
    /\ cur' = a
    /\ ret'.op = "consume_message"

\* solve() of the agent `cur` has just returned normally
Returned == pc = "returned" /\ ret.op = "solve" /\ ret.exc = "no"

\* C1: an agent in status ok whose helping is unset answers solve(inbox) with
\* its saved_solution and no message, without building a kernel or searching,
\* and with status, task, heuristic, saved_solution and the inbox as before;
\* it stays in that condition until consume_message hands it a request
C1_CachedSolve ==
    [][\A a \in Agents :
         (agent[a].status = STATUS.ok /\ ~Truthy(agent[a].helping)) =>
            /\ SolveEnds(a) =>
                  /\ ret'.exc = "no"
                  /\ ret'.path = agent[a].saved_solution
                  /\ ret'.msg = False
                  /\ ~ret'.searched
                  /\ pc = "idle"
                  /\ searcher' = NoSearcher
                  /\ agent'[a] = agent[a]
                  /\ inbox' = inbox
            /\ ~Accepts(a) => agent'[a] = agent[a]]_vars

\* C1 witness: a solve() has returned a cached, non-empty plan without a search
C1_Witness ==
    /\ Returned
    /\ ~ret.searched
    /\ agent[cur].status = STATUS.ok
    /\ ret.path = agent[cur].saved_solution
    /\ Len(ret.path.acts) > 0
    /\ ret.msg = False

\* C2: when a solve() that ran a search has returned, status is ok exactly if
\* the returned plan is not None (the empty plan included) and saved_solution
\* is the returned plan; a status that has left init never is init again
C2_StatusFollowsPlan ==
    /\ [](Returned /\ ret.searched =>
            /\ (agent[cur].status = STATUS.ok) <=> ~ret.path.isNone
            /\ agent[cur].status \in {STATUS.ok, STATUS.fail}
            /\ agent[cur].saved_solution = ret.path)
    /\ [][\A a \in Agents :
            agent[a].status # STATUS.init => agent'[a].status # STATUS.init]_vars

\* C2 witness: a search has returned the empty plan and the agent is ok
C2_Witness ==
    /\ Returned
    /\ ret.searched
    /\ ret.path = SomePath(<< >>)
    /\ agent[cur].status = STATUS.ok
    /\ agent[cur].saved_solution = SomePath(<< >>)

\* C3: when solve() of a failed agent has consumed the message at position i
\* of the inbox and returned, the inbox is the earlier inbox without exactly
\* that element, the others in their earlier order
C3_ConsumedRemoved ==
    (Returned /\ ret.consumed > 0) => inbox = RemoveAt(inbox0, ret.consumed)

\* C4: the message solve() of a failed agent hands to consume_message is a
\* response: it has status ok and a timeline, never an SOS of its own name
C4_ConsumesOnlyResponses ==
    (pc = "returned" /\ ret.op = "solve" /\ ret.consumed > 0) =>
        /\ inbox0[ret.consumed].status = STATUS.ok
        /\ ~inbox0[ret.consumed].time.isNone

\* a request for help of agent a, and a response to a request
IsSOS(m, a) == m.status = STATUS.fail /\ m.requester = a /\ m.time.isNone
IsResponse(m) == m.status = STATUS.ok /\ ~m.time.isNone

\* C5: a message returned by broadcast() is an SOS of the broadcasting agent
\* or a response; a failed agent returns the SOS, also while it holds a request
C5_SosOrResponse ==
    (Returned /\ Truthy(ret.msg)) =>
        /\ IsSOS(ret.msg, cur) \/ IsResponse(ret.msg)
        /\ agent[cur].status = STATUS.fail => IsSOS(ret.msg, cur)

\* C6: a solve() that finds a plan while the agent holds a request accepted in
\* a status other than fail has searched, returns one response with the
\* object_problem, color and requester of the request and clears helping; a
\* solve() of an agent that holds no request and finds or has a plan returns no
\* message, and helping is set by consume_message alone
C6_AnsweredOnce ==
    [][\A a \in Agents :
         /\ (SolveEnds(a) /\ Truthy(agent[a].helping) /\ ret'.exc = "no"
                /\ ~ret'.path.isNone) =>
               /\ ret'.searched
               /\ Truthy(ret'.msg)
               /\ IsResponse(ret'.msg)
               /\ ret'.msg.object_problem = agent[a].helping.object_problem
               /\ ret'.msg.color = agent[a].helping.color
               /\ ret'.msg.requester = agent[a].helping.requester
               /\ agent'[a].helping = False
         /\ (SolveEnds(a) /\ ~Truthy(agent[a].helping) /\ ret'.exc = "no"
                /\ ~ret'.path.isNone) => ret'.msg = False
         /\ (~Truthy(agent[a].helping) /\ Truthy(agent'[a].helping)) =>
               /\ Accepts(a)
               /\ agent[a].status # STATUS.fail
               /\ agent'[a].helping = ret'.msg]_vars

\* C6 witness: a helper has found a plan, answered for another agent's
\* request, and holds no request any more
C6_Witness ==
    /\ Returned
    /\ ret.searched
    /\ Len(ret.path.acts) > 0
    /\ Truthy(ret.msg)
    /\ IsResponse(ret.msg)
    /\ ret.msg.requester # cur
    /\ agent[cur].helping = False

\* C7: when the memory usage polled during the search of solve() exceeds the
\* ceiling, the call ends without a plan and with the agent in status fail
C7_OverCeilingFails ==
    (pc = "returned" /\ ret.op = "solve" /\ ret.searched /\ usage > MAX_USAGE) =>
        /\ agent[cur].status = STATUS.fail
        /\ ret.path.isNone

\* C8: once run_loop(strategy, m) has started, a search aborts with
\* ResourceLimit exactly when the polled usage exceeds m
C8_CeilingIsMaxMemory ==
    (ret.op = "solve" /\ ret.searched /\ usage > 0) =>
        ((ret.exc = "ResourceLimit") <=> (usage > client_MAX_USAGE))

\* C9: when the search of solve() fails and no box of another color is next
\* to a traced position of the agent, solve() returns (None, SOS) with status
\* fail, the agent's name and object_problem None, and the agent is in fail
C9_SosWithoutBlocker ==
    [][\A a \in Agents :
         LET e == explore_and_add(searcher, agent[a].task.explored)
             after == [agent[a] EXCEPT !.task.explored = e.explored]
         IN  (/\ pc = "search" /\ cur = a /\ pc' = "returned"
              /\ usage' <= MAX_USAGE
              /\ frontier_empty(e.kernel)
              /\ _identify_problem(after).isNone) =>
                /\ ret'.exc = "no"
                /\ ret'.path.isNone
                /\ Truthy(ret'.msg)
                /\ IsSOS(ret'.msg, a)
                /\ ret'.msg.object_problem = None
                /\ agent'[a].status = STATUS.fail]_vars

\* the entry of frontier fr that get_and_remove_leaf must take: none has a
\* lesser priority, and none of the same priority was put earlier
IsLeast(fr, i) ==
    \A j \in 1..Len(fr) :
        fr[i].f < fr[j].f \/ (fr[i].f = fr[j].f /\ fr[i].count <= fr[j].count)

\* the ways one pass of the loop of search() ends the call of agent a
EndsByLimit(a) ==
    /\ usage' > MAX_USAGE
    /\ ret'.exc = "ResourceLimit"
    /\ agent'[a] = agent[a]
EndsByExhaustion(a) ==
    /\ usage' <= MAX_USAGE
    /\ ret'.exc # "ResourceLimit"
    /\ frontier_empty(explore_and_add(searcher, agent[a].task.explored).kernel)
    /\ agent'[a].saved_solution = NonePath
    /\ agent'[a].status = STATUS.fail
EndsByGoal(a) ==
    LET fr == explore_and_add(searcher, agent[a].task.explored).kernel.frontier
    IN  /\ usage' <= MAX_USAGE
        /\ ret'.exc = "no"
        /\ fr # << >>
        /\ \E i \in 1..Len(fr) :
              /\ IsLeast(fr, i)
              /\ isGoalState(fr[i].state)
              /\ [agent'[a].task EXCEPT !.explored = {}] = fr[i].state
              /\ agent'[a].saved_solution = SomePath(fr[i].state.acts)
              /\ ret'.path = SomePath(fr[i].state.acts)
        /\ agent'[a].status = STATUS.ok

\* C10: over the finite state sets of the levels a search that has begun comes
\* to an end, and it ends in one of four ways: with [] and no expansion when
\* the root is a goal state; with the actions of the popped leaf, which becomes
\* the task, when that leaf is a goal state; with None when the frontier is
\* empty after an expansion; with ResourceLimit, before any expansion of that
\* pass, when the usage exceeds the ceiling
C10_SearchEnds ==
    /\ (pc = "search") ~> (pc = "returned")
    /\ [](pc = "search" => ~isGoalState(searcher.leaf))
    /\ [][\A a \in Agents :
            /\ (SolveEnds(a) /\ pc = "idle" /\ ret'.searched) =>
                  /\ ret'.exc = "no"
                  /\ ret'.path = SomePath(<< >>)
                  /\ isGoalState(agent'[a].task)
                  /\ agent'[a].task.explored = agent[a].task.explored
                  /\ usage' = usage
            /\ (SolveEnds(a) /\ pc = "search") =>
                  \/ EndsByLimit(a) /\ ~EndsByExhaustion(a) /\ ~EndsByGoal(a)
                  \/ ~EndsByLimit(a) /\ EndsByExhaustion(a) /\ ~EndsByGoal(a)
                  \/ ~EndsByLimit(a) /\ ~EndsByExhaustion(a) /\ EndsByGoal(a)]_vars

\* C10 witness: a search has expanded states, popped a goal leaf and returned
\* its actions, and the leaf is the agent's task
C10_Witness ==
    /\ Returned
    /\ ret.searched
    /\ usage > 0
    /\ Len(ret.path.acts) > 1
    /\ agent[cur].task.acts = ret.path.acts
    /\ isGoalState(agent[cur].task)

----------------------------------------------------------------------------
(* emergency_aStar.py: the A-star kernel kept in the sources.  It scores    *)
(* with its own calc_heuristic_for, never seeds the frontier with the root, *)
(* and expands, inserts and pops in one call of get_and_remove_leaf.        *)

default_heuristic(a, b) == Abs(a[1] - b[1]) + Abs(a[2] - b[2])

\* the two innermost loops of calc_heuristic_for for one goal: one pass per
\* box of the key and agent of the goal's color; bg is what the pass adds to
\* boxGoalCost, ab what it appends to agtBoxCosts
aStarGoalPasses(s, goal, boxes) ==
    Concat([i \in 1..Len(boxes) |->
              [j \in 1..Len(getAgentsByColor(s, goal.color)) |->
                 [bg |-> default_heuristic(boxes[i].pos, goal.pos),
                  ab |-> default_heuristic(
                            getAgentsByKey(s, getAgentsByColor(s, goal.color)[j])[1].pos,
                            boxes[i].pos)]]])

\* all passes for one state, over the goal keys and the goals of each key
aStarPasses(goalKeys, s) ==
    Concat([k \in 1..Len(goalKeys) |->
              Concat([j \in 1..Len(getGoalsByKey(s, goalKeys[k])) |->
                        aStarGoalPasses(s, getGoalsByKey(s, goalKeys[k])[j],
                                        getBoxesByKey(s, goalKeys[k]))])])

\* agtBoxCost = min(agtBoxCosts), which raises ValueError on an empty list;
\* state.h = boxGoalCost + agtBoxCost; state.f = state.g + state.h
aStarScored(s, passes) ==
    IF passes = << >>
    THEN [state |-> s, exc |-> "ValueError"]
    ELSE [state |-> [s EXCEPT
                       !.h = SumSeq([i \in 1..Len(passes) |-> passes[i].bg])
                             + MinSeq([i \in 1..Len(passes) |-> passes[i].ab]),
                       !.f = s.g + SumSeq([i \in 1..Len(passes) |-> passes[i].bg])
                             + MinSeq([i \in 1..Len(passes) |-> passes[i].ab])],
          exc |-> "no"]

aStarCollected(scored) ==
    [states |-> [i \in 1..Len(scored) |-> scored[i].state],
     exc |-> IF \E i \in 1..Len(scored) : scored[i].exc # "no"
             THEN "ValueError" ELSE "no"]

\* calc_heuristic_for(states): the states scored in place, the goal keys
\* being those of the first state; nothing is done for the empty list
calc_heuristic_for(states) ==
    IF states = << >> THEN [states |-> << >>, exc |-> "no"]
    ELSE aStarCollected([i \in 1..Len(states) |->
            aStarScored(states[i], aStarPasses(getGoalKeys(states[1]), states[i]))])

\* the arguments of a constructor call that has not run yet
Pending(init_state) == [built |-> FALSE, leaf |-> init_state]

aStarBuilt(init_state, c) ==
    [kernel |-> IF c.exc # "no" THEN Pending(init_state)
                ELSE [built |-> TRUE, leaf |-> c.states[1], count |-> 0,
                      frontier |-> << >>, explored |-> {}],
     exc |-> c.exc]

\* BestFirstSearch.__init__ as inherited by aStarSearch: an empty frontier,
\* the counter at 0, the root scored; the root is not put into the frontier
aStarSearch(init_state) ==
    aStarBuilt(init_state,
               calc_heuristic_for(<< [init_state EXCEPT !.explored = {}] >>))

\* `self.count += 1; self.frontier.put((state.f, self.count, state))` for
\* every state of the list
PutAll_samecount(k, states) ==
    [k EXCEPT !.frontier = @ \o [i \in 1..Len(states) |->
                                   FrontierEntry(states[i], k.count)]]
PutAll(k, states) ==
    [k EXCEPT !.count = @ + Len(states),
              !.frontier = @ \o [i \in 1..Len(states) |->
                                   FrontierEntry(states[i], k.count + i)]]

\* two entries of the queue agree on priority and counter: ordering the
\* tuples then falls to comparing the State objects
ComparesStates(frontier) ==
    \E i, j \in 1..Len(frontier) :
        i # j /\ frontier[i].f = frontier[j].f /\ frontier[i].count = frontier[j].count

\* `self.leaf = self.frontier.get()[2]`: get() on an empty queue never
\* returns; `got` is the tuple it returned
aStarGet(k) ==
    IF k.frontier = << >>
    THEN [kernel |-> k, exc |-> "no", blocked |-> TRUE, compared |-> FALSE,
          got |-> None]
    ELSE [kernel |-> Pop(k, Least(k.frontier)), exc |-> "no", blocked |-> FALSE,
          compared |-> ComparesStates(k.frontier),
          got |-> k.frontier[Least(k.frontier)]]

aStarPut(k, r, c) ==
    IF c.exc # "no"
    THEN [kernel |-> [k EXCEPT !.explored = r.explored], exc |-> c.exc,
          blocked |-> FALSE, compared |-> FALSE, got |-> None]
    ELSE aStarGet(PutAll([k EXCEPT !.explored = r.explored], c.states))

aStarExplored(k, r) == aStarPut(k, r, calc_heuristic_for(r.children))

\* aStarSearch.get_and_remove_leaf
aStarSearch_get_and_remove_leaf(k) == aStarExplored(k, explore(k.leaf, k.explored))

----------------------------------------------------------------------------
(* The A-star kernel of emergency_aStar.py driven on its own *)

\* the task t with its agent standing on cell p
AgentAt(t, p) == [t EXCEPT !.agents[1].items[1].pos = p]

\* the roots the kernel is built over: the subtasks of the levels with the
\* agent on any cell that holds no box, and a task without goals
AStarRoots ==
    UNION { { AgentAt(LevelTask(l, a), p) :
                p \in { q \in FreeCells : IsFree(<< >>, LevelTask(l, a).boxes, q) } } :
            l \in Levels, a \in Agents }
        \cup { [LevelTask("help", "0") EXCEPT !.goals = << >>] }

AStarInit ==
    /\ pc = "aStar_new"
    /\ cur = "none"
    /\ agent = [a \in Agents |-> NewAgent(LevelTask("help", a))]
    /\ inbox = << >>
    /\ inbox0 = << >>
    /\ \E root \in AStarRoots : searcher = Pending(root)
    /\ usage = 0
    /\ client_MAX_USAGE = None
    /\ ret = NoCall

aStarConstructed(r) ==
    /\ searcher' = r.kernel
    /\ ret' = [op |-> "aStarSearch", exc |-> r.exc]
    /\ pc' = IF r.exc # "no" THEN "aStar_raised" ELSE "aStar"

\* aStarSearch(init_state)
aStarConstruct ==
    /\ pc = "aStar_new"
    /\ aStarConstructed(aStarSearch(searcher.leaf))
    /\ UNCHANGED << cur, agent, inbox, inbox0, usage, client_MAX_USAGE >>

aStarReturned(r) ==
    /\ searcher' = r.kernel
    /\ ret' = [op |-> "get_and_remove_leaf", exc |-> r.exc, blocked |-> r.blocked,
               compared |-> r.compared, got |-> r.got]
    /\ pc' = IF r.exc # "no" THEN "aStar_raised"
             ELSE IF r.blocked THEN "aStar_blocked" ELSE "aStar"

\* one call of get_and_remove_leaf() on the kernel, made as the search loops
\* make it: while the leaf is no goal state
aStarStep ==
    /\ pc = "aStar"
    /\ ~isGoalState(searcher.leaf)
    /\ aStarReturned(aStarSearch_get_and_remove_leaf(searcher))
    /\ UNCHANGED << cur, agent, inbox, inbox0, usage, client_MAX_USAGE >>

AStarNext == aStarConstruct \/ aStarStep

AStarSpec == AStarInit /\ [][AStarNext]_vars

\* C11: in one search instance the counters of the entries in the frontier
\* grow strictly in the order of insertion and every new entry gets a counter
\* above all earlier ones, so no two entries agree on (priority, counter) and
\* no State objects are compared; the entry get_and_remove_leaf takes out and
\* makes the leaf has the least priority and, among equal priorities, the
\* least counter, and the other entries stay
C11_LeastThenEarliest ==
    /\ [](searcher.built =>
            /\ \A i, j \in 1..Len(searcher.frontier) :
                  i < j => searcher.frontier[i].count < searcher.frontier[j].count
            /\ \A i \in 1..Len(searcher.frontier) :
                  searcher.frontier[i].count <= searcher.count)
    /\ [][(pc = "aStar" /\ pc' = "aStar") =>
            /\ ~ret'.compared
            /\ ret'.got.state = searcher'.leaf
            /\ \A i \in 1..Len(searcher'.frontier) :
                  \/ ret'.got.f < searcher'.frontier[i].f
                  \/ /\ ret'.got.f = searcher'.frontier[i].f
                     /\ ret'.got.count < searcher'.frontier[i].count
            /\ \A i \in 1..Len(searcher.frontier) :
                  \/ searcher.frontier[i] = ret'.got
                  \/ \E j \in 1..Len(searcher'.frontier) :
                        searcher'.frontier[j] = searcher.frontier[i]
            /\ \A j \in 1..Len(searcher'.frontier) :
                  \/ searcher'.frontier[j].count > searcher.count
                  \/ \E i \in 1..Len(searcher.frontier) :
                        searcher.frontier[i] = searcher'.frontier[j]
            /\ ret'.got.count <= searcher'.count
            /\ searcher'.count >= searcher.count]_vars

\* C11 witness: the entry taken has the priority of an entry that stays, and
\* was inserted before it
C11_Witness ==
    /\ pc = "aStar"
    /\ ret.op = "get_and_remove_leaf"
    /\ \E i \in 1..Len(searcher.frontier) :
          /\ searcher.frontier[i].f = ret.got.f
          /\ searcher.frontier[i].count > ret.got.count

\* C12: every entry in the frontier of the A-star kernel has the priority
\* g + 5 * h of its state, h and g being the values written on that state
C12_PriorityIsGPlus5H ==
    searcher.built =>
        \A i \in 1..Len(searcher.frontier) :
            searcher.frontier[i].f
                = searcher.frontier[i].state.g + 5 * searcher.frontier[i].state.h

\* C13: building the kernel over a task without goals raises nothing, and
\* the scored root is a goal state, so that the search returns the plan []
C13_EmptyGoalsPlanEmpty ==
    (ret.op = "aStarSearch" /\ searcher.leaf.goals = << >>) =>
        /\ ret.exc = "no"
        /\ searcher.built
        /\ isGoalState(searcher.leaf)


----------------------------------------------------------------------------
(* heuristics.py: GoAway and dGraph, and a call of any heuristic object *)

GoAway == [kind |-> "GoAway", weight |-> None]
dGraph == [kind |-> "dGraph", weight |-> None]

\* GoAway.__call__, the loop over the boxes of a key for one goal, from box
\* number i on: a box on the goal is skipped; for every other box -10 times the
\* distance of every agent joins agt_box_costs, the distance to the goal joins
\* box_goal_costs (seen) and the minimum so far is added to box_goal_cost
RECURSIVE GoAwayBoxLoop(_, _, _, _, _, _)
GoAwayBoxLoop(s, goal, boxes, i, seen, acc) ==
    IF i > Len(boxes) THEN acc
    ELSE IF manha_dist(goal.pos, boxes[i].pos) = 0
    THEN GoAwayBoxLoop(s, goal, boxes, i + 1, seen, acc)
    ELSE GoAwayBoxLoop(s, goal, boxes, i + 1,
             Append(seen, manha_dist(boxes[i].pos, goal.pos)),
             [acc EXCEPT
                 !.agt_box_costs = @ \o
                     [j \in 1..Len(s.agents) |->
                         (-10) * manha_dist(getAgentsByKey(s, s.agents[j].key)[1].pos,
                                            boxes[i].pos)],
                 !.box_goal_cost = @ + MinSeq(Append(seen,
                                          manha_dist(boxes[i].pos, goal.pos)))])

\* GoAway.__call__, the loop over the goals of one key, from goal number j on
RECURSIVE GoAwayGoalLoop(_, _, _, _)
GoAwayGoalLoop(s, key, j, acc) ==
    IF j > Len(getGoalsByKey(s, key)) THEN acc
    ELSE GoAwayGoalLoop(s, key, j + 1,
             GoAwayBoxLoop(s, getGoalsByKey(s, key)[j], getBoxesByKey(s, key),
                           1, << >>, acc))

\* GoAway.__call__, the loop over the goal keys, from key number i on
RECURSIVE GoAwayKeyLoop(_, _, _)
GoAwayKeyLoop(s, i, acc) ==
    IF i > Len(getGoalKeys(s)) THEN acc
    ELSE GoAwayKeyLoop(s, i + 1,
             AddAgents(GoAwayGoalLoop(s, getGoalKeys(s)[i], 1, acc)))

\* state.h = box_goal_cost + agt_box_cost; state.f = state.h * 25
GoAwayCosts(s, acc) ==
    [s EXCEPT !.h = acc.box_goal_cost + acc.agt_box_cost,
              !.f = (acc.box_goal_cost + acc.agt_box_cost) * 25]

\* dGraph.__call__ on one state: the first agent, box and goal are read, then
\* initializeGraphAttributes is called as a bare name, which is no global of
\* the module
dGraphRaises(s) ==
    IF s.agents = << >> \/ s.boxes = << >> \/ s.goals = << >>
    THEN "IndexError"
    ELSE "NameError"

\* heuristic(state): the state afterwards and the exception raised, if any;
\* every __call__ falls off its end, so the value returned is None
Call(heur, s) ==
    CASE heur.kind = "dGraph" ->
            [state |-> s, exc |-> dGraphRaises(s), value |-> None]
      [] heur.kind = "GoAway" ->
            [state |-> GoAwayCosts(s, GoAwayKeyLoop(s, 1,
                          [box_goal_cost |-> 0, agt_box_cost |-> 0,
                           agt_box_costs |-> << >>])),
             exc |-> "no", value |-> None]
      [] OTHER -> [state |-> Score(heur, s), exc |-> "no", value |-> None]


----------------------------------------------------------------------------
(* bdi.py: Agent.add_task and Agent.marginal_task_cost *)

\* {**d1, **d2}: the keys of d1 keep their place and take the value d2 gives
\* them, the other keys of d2 follow in their order
Merge(d1, d2) ==
    LET New(e) == ~HasKey(d1, e.key)
    IN  [i \in 1..Len(d1) |->
            IF HasKey(d2, d1[i].key)
            THEN [key |-> d1[i].key, items |-> Get(d2, d1[i].key)]
            ELSE d1[i]]
        \o SelectSeq(d2, New)

\* Agent.add_task: the color of the first goal of the task is read; when it is
\* not the agent's, an IncorrectTask object is built and dropped; the goals
\* are merged in every case
add_task(o, task) ==
    IF task.goals = << >>
    THEN [obj |-> o, exc |-> "IndexError"]
    ELSE [obj |-> [o EXCEPT !.task.goals = Merge(o.task.goals, task.goals)],
          exc |-> "no"]

\* state.addGoal(key, pos, color): one more goal under the key
addGoal(s, key, pos, color) ==
    IF HasKey(s.goals, key)
    THEN [s EXCEPT !.goals =
            [i \in 1..Len(s.goals) |->
                IF s.goals[i].key = key
                THEN [s.goals[i] EXCEPT
                        !.items = Append(@, [pos |-> pos, color |-> color])]
                ELSE s.goals[i]]]
    ELSE [s EXCEPT !.goals = Append(@, Entry(key, pos, color))]

\* float("inf") and the finite numbers, min() and the difference on them
Inf == [isInf |-> TRUE, n |-> 0]
Finite(n) == [isInf |-> FALSE, n |-> n]
PyMin(a, b) ==
    IF a.isInf THEN b ELSE IF b.isInf THEN a ELSE IF b.n < a.n THEN b ELSE a
PySub(a, n) == IF a.isInf THEN Inf ELSE Finite(a.n - n)

\* the end of marginal_task_cost: cost is what the heuristic call returned,
\* replaced by c_union when it is None
JointCost(o, scored, c2) ==
    IF c2.exc # "no"
    THEN [value |-> None, exc |-> c2.exc, broadcasted_task |-> scored, obj |-> o]
    ELSE LET c_union == Inf
             cost == IF c2.value = None THEN c_union ELSE Finite(c2.value)
         IN  [value |-> PySub(PyMin(c_union, cost), scored.f), exc |-> "no",
              broadcasted_task |-> scored, obj |-> o]

\* Agent.marginal_task_cost: the value returned, the broadcast task as the
\* heuristic call leaves it, the agent, and the exception raised, if any.
\* The keys of the levels are one character long, so key[0] is the key
marginal_task_cost(o, broadcasted_task) ==
    IF broadcasted_task.goals = << >>
    THEN [value |-> None, exc |-> "IndexError",
          broadcasted_task |-> broadcasted_task, obj |-> o]
    ELSE LET goal == broadcasted_task.goals[1].items[1]
             goal_key == broadcasted_task.goals[1].key
             c1 == Call(o.heuristic, broadcasted_task)
         IN  IF goal.color # o.color
             THEN [value |-> Inf, exc |-> "no",
                   broadcasted_task |-> broadcasted_task, obj |-> o]
             ELSE IF c1.exc # "no"
             THEN [value |-> None, exc |-> c1.exc,
                   broadcasted_task |-> c1.state, obj |-> o]
             ELSE JointCost(o, c1.state,
                            Call(o.heuristic,
                                 addGoal(o.task, goal_key, goal.pos, goal.color)))


----------------------------------------------------------------------------
(* The methods of one agent called on their own: a heuristic call on the
   agent's task, consume_message, marginal_task_cost and add_task *)

\* longest timeline of a response
MaxEvents == 3

\* agent 0 is red; the tasks have one or two agents, one or two boxes of key A,
\* a box on or off its goal, one or two goal keys and one or two goals of a key
UnitAgentLayouts ==
    { << Entry("0", P(1), "red") >>,
      << Entry("0", P(1), "red"), Entry("1", P(6), "blue") >> }
UnitBoxLayouts ==
    { << Entry("A", P(2), "red"), Entry("B", P(4), "blue") >>,
      << Entry("A", P(3), "red"), Entry("B", P(4), "blue") >>,
      << [key |-> "A", items |-> << [pos |-> P(3), color |-> "red"],
                                    [pos |-> P(5), color |-> "red"] >>],
         Entry("B", P(4), "blue") >> }
UnitGoalLayouts ==
    { << Entry("A", P(3), "red") >>,
      << Entry("A", P(3), "red"), Entry("B", P(6), "blue") >>,
      << [key |-> "A", items |-> << [pos |-> P(3), color |-> "red"],
                                    [pos |-> P(6), color |-> "red"] >>] >> }
UnitTasks ==
    { NewState(ag, bx, gl) :
        ag \in UnitAgentLayouts, bx \in UnitBoxLayouts, gl \in UnitGoalLayouts }

\* the one-goal subtasks the manager broadcasts
UnitSubtasks ==
    { NewState(<< Entry("0", P(1), "red") >>,
               << Entry("A", P(2), "red"), Entry("B", P(4), "blue") >>,
               << Entry(kc[1], P(c), kc[2]) >>) :
        kc \in { << "A", "red" >>, << "B", "blue" >> }, c \in {3, 5} }

\* the timelines of a box that lies on cell 4 or 5 at each of n time steps
Timelines(n) ==
    { [i \in 1..n |-> << i - 1, P(cs[i]) >>] : cs \in [1..n -> {4, 5}] }
UnitMessages ==
    { Message("B", "blue", "0", STATUS.ok, SomeTime(tl)) :
        tl \in UNION { Timelines(n) : n \in 1..MaxEvents } }
    \cup { Message("B", "blue", "0", STATUS.fail, NoneTime),
           Message("A", "red", "1", STATUS.fail, NoneTime) }

UnitHeuristics ==
    { EasyRule, WeightedRule("a"), WeightedRule("A"), GoAway, dGraph }

\* the explored set a search leaves that expands todo and all it leads to
RECURSIVE Exhaust(_, _)
Exhaust(todo, explored) ==
    IF todo = << >> THEN explored
    ELSE Exhaust(Tail(todo) \o explore(Head(todo), explored).children,
                 explore(Head(todo), explored).explored)

\* the task as a search that ran its frontier empty leaves it
Searched(t) == [t EXCEPT !.explored = Exhaust(<< t >>, {})]

\* tasks of agent 0 without a plan: the three levels, and a corridor where
\* the agent stands between its own box and the second of two blue boxes B
SearchedTasks ==
    { LevelTask(l, "0") : l \in Levels }
    \cup { NewState(<< Entry("0", P(5), "red") >>,
                    << Entry("A", P(6), "red"),
                       [key |-> "B", items |-> << [pos |-> P(2), color |-> "blue"],
                                                  [pos |-> P(4), color |-> "blue"] >>] >>,
                    << Entry("A", P(3), "red") >>) }

\* the snapshot, the task and the message of a run: every task with one
\* message, one task with every message, and the tasks one step into a plan
\* (the task of an agent that has found one) with the two requests
UnitInputs ==
    { << t, t, Message("B", "blue", "0", STATUS.ok,
                       SomeTime(<< << 0, P(4) >>, << 1, P(5) >> >>)) >> :
        t \in UnitTasks }
    \cup { << LevelTask("help", "0"), LevelTask("help", "0"), m >> :
            m \in UnitMessages }
    \cup { << LevelTask("stuck", "0"), AllSuccessors(LevelTask("stuck", "0"))[i], m >> :
            i \in 1..Len(AllSuccessors(LevelTask("stuck", "0"))),
            m \in { Message("B", "blue", "0", STATUS.fail, NoneTime),
                    Message("A", "red", "1", STATUS.fail, NoneTime) } }
    \cup { << t, Searched(t), Message("A", "red", "1", STATUS.fail, NoneTime) >> :
            t \in SearchedTasks }

NoUnitCall == [op |-> "none", arg |-> None, exc |-> "no", value |-> None,
               before |-> None]

UnitInit ==
    /\ pc = "unit"
    /\ cur = "0"
    /\ \E tm \in UnitInputs, heur \in UnitHeuristics,
          st \in {STATUS.init, STATUS.ok, STATUS.fail} :
            /\ (tm[2] # tm[1] /\ tm[2].explored = {}) => st = STATUS.ok
            /\ tm[2].explored # {} => st = STATUS.fail
            /\ agent = [a \in Agents |->
                          IF a = "0"
                          THEN [NewAgent(tm[1]) EXCEPT !.task = tm[2],
                                                       !.heuristic = heur,
                                                       !.status = st]
                          ELSE NewAgent(LevelTask("help", a))]
            /\ inbox = << tm[3] >>
    /\ inbox0 = inbox
    /\ searcher = NoSearcher
    /\ usage = 0
    /\ client_MAX_USAGE = None
    /\ ret = NoUnitCall

\* the costs a heuristic call wrote, None when it raised
Costs(c) == IF c.exc = "no" THEN [h |-> c.state.h, f |-> c.state.f] ELSE None

UnitScored(c) ==
    /\ agent' = [agent EXCEPT ![cur].task = c.state]
    /\ ret' = [op |-> "heuristic", arg |-> agent[cur].task, exc |-> c.exc,
               value |-> Costs(c), before |-> ret.value]
    /\ pc' = IF c.exc # "no" THEN "raised"
             ELSE IF pc = "unit" THEN "scored1" ELSE "scored2"

\* agent.heuristic(agent.task), once and once more
UnitScore ==
    /\ pc \in {"unit", "scored1"}
    /\ UnitScored(Call(agent[cur].heuristic, agent[cur].task))
    /\ UNCHANGED << cur, inbox, inbox0, searcher, usage, client_MAX_USAGE >>

UnitConsumed(r) ==
    /\ agent' = [agent EXCEPT ![cur] = r.obj]
    /\ ret' = [op |-> "consume_message", arg |-> inbox[1], exc |-> r.exc,
               value |-> None, before |-> agent[cur].task]
    /\ pc' = IF r.exc # "no" THEN "raised" ELSE "consumed"

\* agent.consume_message(message), on a fresh agent or on one whose task was
\* scored or has taken another task
UnitConsume ==
    /\ pc \in {"unit", "scored1", "added"}
    /\ UnitConsumed(consume_message(agent[cur], inbox[1]))
    /\ UNCHANGED << cur, inbox, inbox0, searcher, usage, client_MAX_USAGE >>

UnitCosted(t, r) ==
    /\ agent' = [agent EXCEPT ![cur] = r.obj]
    /\ ret' = [op |-> "marginal_task_cost", arg |-> t, exc |-> r.exc,
               value |-> r.value, before |-> r.broadcasted_task]
    /\ pc' = IF r.exc # "no" THEN "raised" ELSE "costed"

\* agent.marginal_task_cost(broadcasted_task)
UnitMarginal ==
    /\ pc = "unit"
    /\ \E t \in UnitSubtasks : UnitCosted(t, marginal_task_cost(agent[cur], t))
    /\ UNCHANGED << cur, inbox, inbox0, searcher, usage, client_MAX_USAGE >>

UnitAdded(t, r) ==
    /\ agent' = [agent EXCEPT ![cur] = r.obj]
    /\ ret' = [op |-> "add_task", arg |-> t, exc |-> r.exc,
               value |-> None, before |-> agent[cur].task]
    /\ pc' = IF r.exc # "no" THEN "raised" ELSE "added"

\* agent.add_task(task)
UnitAddTask ==
    /\ pc = "unit"
    /\ \E t \in UnitSubtasks : UnitAdded(t, add_task(agent[cur], t))
    /\ UNCHANGED << cur, inbox, inbox0, searcher, usage, client_MAX_USAGE >>

\* Message(object_problem, color, requester, status, time) with the fields of
\* the message at hand and either status
UnitNewMessage ==
    /\ pc = "unit"
    /\ \E st \in {STATUS.ok, STATUS.fail} :
          /\ ret' = [op |-> "Message",
                     arg |-> [object_problem |-> inbox[1].object_problem,
                              color |-> inbox[1].color,
                              requester |-> inbox[1].requester,
                              status |-> st, time |-> inbox[1].time],
                     exc |-> MessageRaises(st, inbox[1].time),
                     value |-> IF MessageRaises(st, inbox[1].time) # "no"
                               THEN None
                               ELSE Message(inbox[1].object_problem,
                                            inbox[1].color, inbox[1].requester,
                                            st, inbox[1].time),
                     before |-> None]
          /\ pc' = IF MessageRaises(st, inbox[1].time) # "no"
                   THEN "raised" ELSE "built"
    /\ UNCHANGED << cur, agent, inbox, inbox0, searcher, usage, client_MAX_USAGE >>

\* agent._identify_problem()
UnitIdentify ==
    /\ pc = "unit"
    /\ ret' = [op |-> "_identify_problem", arg |-> None, exc |-> "no",
               value |-> _identify_problem(agent[cur]), before |-> None]
    /\ pc' = "identified"
    /\ UNCHANGED << cur, agent, inbox, inbox0, searcher, usage, client_MAX_USAGE >>

UnitNext ==
    \/ UnitScore \/ UnitConsume \/ UnitMarginal \/ UnitAddTask
    \/ UnitNewMessage \/ UnitIdentify

UnitSpec == UnitInit /\ [][UnitNext]_vars


----------------------------------------------------------------------------
(* Properties of the heuristics *)

\* C14: WeightedRule(w) multiplies by 10 the minimum box-to-goal distance of
\* every goal whose key equals w ignoring case, whether w is given in upper or
\* in lower case: the h it writes is the h of a rule that weights no key plus
\* 9 times those minimum distances
C14_WeightIgnoresCase ==
    (ret.op = "heuristic" /\ ret.exc = "no"
        /\ agent[cur].heuristic.kind = "WeightedRule") =>
        LET s == ret.arg
            w == agent[cur].heuristic.weight
            Dists(key, goal) ==
                { manha_dist(getBoxesByKey(s, key)[b].pos, goal.pos) :
                    b \in 1..Len(getBoxesByKey(s, key)) } \ {0}
            MinDist(key, goal) ==
                IF Dists(key, goal) = {} THEN 0
                ELSE CHOOSE d \in Dists(key, goal) :
                        \A e \in Dists(key, goal) : d <= e
            weighted ==
                Concat([i \in 1..Len(s.goals) |->
                    IF Lower(s.goals[i].key) = Lower(w)
                    THEN [j \in 1..Len(s.goals[i].items) |->
                            MinDist(s.goals[i].key, s.goals[i].items[j])]
                    ELSE << >>])
        IN  ret.value.h = Score(WeightedRule(None), s).h + 9 * SumSeq(weighted)

\* C15: the h EasyRule writes is the sum over the goals of the least distance
\* to the goal from any box of the goal's key that is not on it, plus the sum
\* of the distances
\* between every agent of a goal's color and every box of the goal's key that
\* is not on the goal, each such pair of agent and box counted once
C15_EasyRuleSum ==
    (ret.op = "heuristic" /\ ret.exc = "no"
        /\ agent[cur].heuristic.kind = "EasyRule") =>
        LET s == ret.arg
            BoxesOf(key) == getBoxesByKey(s, key)
            Dists(key, goal) ==
                { manha_dist(BoxesOf(key)[b].pos, goal.pos) :
                    b \in 1..Len(BoxesOf(key)) } \ {0}
            MinDist(key, goal) ==
                IF Dists(key, goal) = {} THEN 0
                ELSE CHOOSE d \in Dists(key, goal) :
                        \A e \in Dists(key, goal) : d <= e
            box_goal ==
                Concat([i \in 1..Len(s.goals) |->
                    [j \in 1..Len(s.goals[i].items) |->
                        MinDist(s.goals[i].key, s.goals[i].items[j])]])
            pairs ==
                { abk \in (1..Len(s.agents)) \X (1..6) \X (1..Len(s.goals)) :
                    /\ abk[2] <= Len(BoxesOf(s.goals[abk[3]].key))
                    /\ \E j \in 1..Len(s.goals[abk[3]].items) :
                          /\ s.agents[abk[1]].items[1].color
                                = s.goals[abk[3]].items[j].color
                          /\ BoxesOf(s.goals[abk[3]].key)[abk[2]].pos
                                # s.goals[abk[3]].items[j].pos }
            RECURSIVE SumPairs(_)
            SumPairs(ps) ==
                IF ps = {} THEN 0
                ELSE LET x == CHOOSE y \in ps : TRUE
                     IN  manha_dist(s.agents[x[1]].items[1].pos,
                                    BoxesOf(s.goals[x[3]].key)[x[2]].pos)
                         + SumPairs(ps \ {x})
        IN  ret.value.h = SumSeq(box_goal) + SumPairs(pairs)

\* C16: calling the same heuristic object (EasyRule, WeightedRule, GoAway or
\* dGraph) on a state twice in a row writes the same h and the same f both
\* times
C16_ScoreTwiceSame ==
    (ret.op = "heuristic") =>
        /\ ret.exc = "no"
        /\ pc = "scored2" => ret.value = ret.before


----------------------------------------------------------------------------
(* Properties of consume_message *)

\* C17: when an agent in status Fail consumes a response with the timeline
\* (t0,p0),(t1,p1),..., the overlay it builds has an entry at t_i exactly for
\* the i >= 1 whose p_i differs from the position of the last recorded change
\* (p0 at first), every entry maps the message's object_problem to p_i, the
\* first event is never recorded, the task becomes the previous task under
\* one more overlay, and its local time is 0
C17_OverlayOfChanges ==
    [][(ret'.op = "consume_message" /\ agent[cur].status = STATUS.fail
            /\ ~inbox[1].time.isNone /\ inbox[1].time.events # << >>) =>
        LET ev == inbox[1].time.events
            RECURSIVE Last(_)
            Last(i) == IF i = 1 THEN ev[1][2]
                       ELSE IF ev[i][2] # Last(i - 1) THEN ev[i][2]
                       ELSE Last(i - 1)
            recorded == { i \in 2..Len(ev) : ev[i][2] # Last(i - 1) }
            task == agent'[cur].task
            overlay == task.concurrent[Len(task.concurrent)]
        IN  /\ ret'.exc = "no"
            /\ Len(task.concurrent) = Len(agent[cur].task.concurrent) + 1
            /\ DOMAIN overlay = { ev[i][1] : i \in recorded }
            /\ \A i \in recorded :
                  overlay[ev[i][1]] = [key |-> inbox[1].object_problem,
                                       pos |-> ev[i][2]]
            /\ ev[1][1] \notin DOMAIN overlay
            /\ task = [agent[cur].task EXCEPT !.concurrent = Append(@, overlay),
                                              !.t = 0]
            /\ task.t = 0
            /\ agent'[cur] = [agent[cur] EXCEPT !.task = task]]_vars

\* a Fail agent has consumed a response of three events of which only the
\* last moves the box: the overlay has the one entry of that event
C17_Witness ==
    /\ pc = "consumed"
    /\ ret.op = "consume_message"
    /\ agent[cur].status = STATUS.fail
    /\ ret.arg.time.events = << << 0, P(4) >>, << 1, P(4) >>, << 2, P(5) >> >>
    /\ Len(agent[cur].task.concurrent) = 1
    /\ DOMAIN agent[cur].task.concurrent[1] = {2}
    /\ agent[cur].task.concurrent[1][2] = [key |-> "B", pos |-> P(5)]

\* C18: when an agent whose status is not Fail consumes a message, afterwards
\* helping is that message, the task is the snapshot taken at construction,
\* the heuristic is WeightedRule(message.object_problem), and the status, the
\* saved solution and everything else of the agent are as before
C18_HelperResets ==
    [][(ret'.op = "consume_message" /\ agent[cur].status # STATUS.fail) =>
        /\ ret'.exc = "no"
        /\ agent'[cur].helping = inbox[1]
        /\ agent'[cur].task = agent[cur].init_task
        /\ agent'[cur].heuristic = WeightedRule(inbox[1].object_problem)
        /\ agent'[cur].status = agent[cur].status
        /\ agent'[cur].saved_solution = agent[cur].saved_solution
        /\ agent'[cur] = [agent[cur] EXCEPT
                            !.helping = inbox[1],
                            !.task = agent[cur].init_task,
                            !.heuristic = WeightedRule(inbox[1].object_problem)]]_vars

\* an agent that has found a plan and stands one step into it has consumed a
\* request: its task is the snapshot again
C18_Witness ==
    /\ pc = "consumed"
    /\ ret.op = "consume_message"
    /\ agent[cur].status = STATUS.ok
    /\ ret.before # agent[cur].init_task
    /\ ret.before.t = 1
    /\ agent[cur].task = agent[cur].init_task
    /\ agent[cur].helping = ret.arg
    /\ agent[cur].heuristic = WeightedRule("A")


----------------------------------------------------------------------------
(* Properties of marginal_task_cost and add_task *)

\* C19: marginal_task_cost(subtask) returns +infinity exactly when the color
\* of the subtask's goal is not the agent's; for a subtask of the agent's
\* color it returns the finite c_joint - c_sub, c_sub the score of the subtask
\* alone and c_joint the score of the agent's task with the goal added; the
\* agent's own task is left as it was
C19_MarginalCost ==
    [][(ret'.op = "marginal_task_cost") =>
        LET goal == ret'.arg.goals[1].items[1]
            heur == agent[cur].heuristic
            c_sub == Call(heur, ret'.arg).state.h
            c_joint == Call(heur, addGoal(agent[cur].task, ret'.arg.goals[1].key,
                                          goal.pos, goal.color)).state.h
        IN  /\ ret'.exc = "no"
            /\ ret'.value.isInf <=> goal.color # agent[cur].color
            /\ goal.color = agent[cur].color
                  => ret'.value = Finite(c_joint - c_sub)
            /\ agent'[cur].task = agent[cur].task]_vars

\* C20: add_task with a task whose goal color is not the agent's fails with
\* IncorrectTask and leaves the goals of the agent as they were; a task whose
\* goals all have the agent's color has no goal of another color afterwards
C20_OffColorRefused ==
    [][(ret'.op = "add_task") =>
        LET OnColor(o) ==
                \A i \in 1..Len(o.task.goals) :
                    \A j \in 1..Len(o.task.goals[i].items) :
                        o.task.goals[i].items[j].color = o.color
        IN  /\ ret'.arg.goals[1].items[1].color # agent[cur].color
                  => /\ ret'.exc = "IncorrectTask"
                     /\ agent'[cur].task.goals = agent[cur].task.goals
            /\ OnColor(agent[cur]) => OnColor(agent'[cur])]_vars


----------------------------------------------------------------------------
(* Properties of Message, of dGraph scoring and of the goals add_task keeps *)

\* C21: constructing a Message with status ok and no timeline fails with
\* IncorrectTask; with status fail and no timeline, or with a timeline, it
\* succeeds and the five fields are stored as given
C21_MessageNeedsTime ==
    (ret.op = "Message") =>
        /\ ret.exc = "IncorrectTask"
              <=> (ret.arg.status = STATUS.ok /\ ret.arg.time.isNone)
        /\ ret.exc \in {"IncorrectTask", "no"}
        /\ ret.exc = "no" =>
              /\ ret.value.object_problem = ret.arg.object_problem
              /\ ret.value.color = ret.arg.color
              /\ ret.value.requester = ret.arg.requester
              /\ ret.value.status = ret.arg.status
              /\ ret.value.time = ret.arg.time

\* a Message with status ok and no timeline was refused
C21_Witness ==
    /\ pc = "raised"
    /\ ret.op = "Message"
    /\ ret.exc = "IncorrectTask"
    /\ ret.arg.status = STATUS.ok
    /\ ret.arg.time.isNone

\* C27: dGraph scoring of a state completes and writes f = 2 * h + g
C27_dGraphScores ==
    (ret.op = "heuristic" /\ agent[cur].heuristic.kind = "dGraph") =>
        /\ ret.exc = "no"
        /\ ret.value.f = 2 * ret.value.h + agent[cur].task.g

\* C30: after add_task(t) the goals of the agent hold every goal it held
\* before and every goal of t, also when t has a goal key the agent already has
C30_AddTaskKeepsGoals ==
    [][(ret'.op = "add_task" /\ ret'.exc = "no") =>
        LET Held(s) ==
                { << s.goals[x[1]].key, s.goals[x[1]].items[x[2]] >> :
                    x \in { y \in (1..Len(s.goals)) \X (1..2) :
                               y[2] <= Len(s.goals[y[1]].items) } }
        IN  (Held(agent[cur].task) \cup Held(ret'.arg))
                \subseteq Held(agent'[cur].task)]_vars


\* C24: on a task without a reachable goal state the search of
\* emergency_aStar.py stops and reports that there is no plan: no call of
\* get_and_remove_leaf waits on a frontier left empty by an expansion without
\* successors
C24_NeverWaitsOnEmptyFrontier ==
    (ret.op = "get_and_remove_leaf") =>
        /\ ~ret.blocked
        /\ pc # "aStar_blocked"


\* C25: when _identify_problem returns a pair (box, color), the color is not
\* the agent's and a box of that key lies next to a position the agent had in
\* an explored state; and when some box of another color lies next to such a
\* position, a pair is returned
C25_ProblemIffBlocker ==
    (ret.op = "_identify_problem") =>
        LET o == agent[cur]
            trace == { rep[1][i].items[1].pos :
                         rep \in o.task.explored,
                         i \in { k \in 1..Len(o.task.agents) :
                                    o.task.agents[k].key = o.name } }
            Blocks(b) == /\ b.color # o.color
                         /\ \E p \in trace : Neighbour(b.pos, p)
            boxes == Items(o.task.boxes)
        IN  /\ ~ret.value.isNone =>
                  /\ ret.value.color # o.color
                  /\ \E j \in 1..Len(getBoxesByKey(o.task, ret.value.box)) :
                        /\ Blocks(getBoxesByKey(o.task, ret.value.box)[j])
                        /\ getBoxesByKey(o.task, ret.value.box)[j].color
                              = ret.value.color
            /\ (\E j \in 1..Len(boxes) : Blocks(boxes[j])) => ~ret.value.isNone


----------------------------------------------------------------------------
(* searchclient.py: SearchClient.parse_map and the loop of run_loop that
   sends the solution to the server *)

MaxLines == 5
MaxPlan == 3

\* a line of the level as parse_map tells lines apart: a color declaration, a
\* row of the map, the markers #initial, #goal and #end, and an empty line
LineKinds == {"color", "row", "#initial", "#goal", "#end", ""}
ClientLines == UNION { [1..n -> LineKinds] : n \in 1..MaxLines }

\* the while loop of parse_map from line number i on; initial and goal are the
\* two flags, rows and goal_rows the lengths of map and goal_state; NoState
\* stands for None.
\* readline() gives "" at the end of the input, and an empty line ends the
\* loop as well: the function then falls off its end and returns None
NoState == [isNone |-> TRUE, rows |-> 0, goal_rows |-> 0]
RECURSIVE ParseLoop(_, _, _, _, _, _)
ParseLoop(lines, i, initial, goal, rows, goal_rows) ==
    IF i > Len(lines) \/ lines[i] = ""
    THEN [value |-> NoState, exc |-> "no"]
    ELSE IF goal
    THEN IF lines[i] = "#end"
         THEN IF rows = 0
              THEN [value |-> NoState, exc |-> "ValueError"]
              ELSE IF goal_rows < rows
              THEN [value |-> NoState, exc |-> "IndexError"]
              ELSE [value |-> [isNone |-> FALSE, rows |-> rows,
                               goal_rows |-> goal_rows],
                    exc |-> "no"]
         ELSE ParseLoop(lines, i + 1, initial, goal, rows, goal_rows + 1)
    ELSE IF initial
    THEN IF lines[i] = "#goal"
         THEN ParseLoop(lines, i + 1, initial, TRUE, rows, goal_rows)
         ELSE ParseLoop(lines, i + 1, initial, goal, rows + 1, goal_rows)
    ELSE ParseLoop(lines, i + 1, lines[i] = "#initial", goal, rows, goal_rows)

\* SearchClient.parse_map(server_messages): None, or the state build_map
\* makes of the rows (here the numbers of rows it is made of)
parse_map(server_messages) == ParseLoop(server_messages, 1, FALSE, FALSE, 0, 0)

\* what client.search() may return: None, or a list of joint actions
Solutions ==
    { NonePath }
    \cup { SomePath(p) :
            p \in UNION { [1..n -> {"Move(E)", "Push(E,E)"}] : n \in 0..MaxPlan } }

\* the answers of the server to an action
Responses == {"true", "false", "[true, false]", ""}

\* "false" in response, ignored
HasFalse_never(response) == FALSE

\* "false" in response
HasFalse(response) == response \in {"false", "[true, false]"}

NoClientCall == [op |-> "none", exc |-> "no", parsed |-> NoState,
                 solution |-> NonePath, out |-> << >>, acks |-> << >>,
                 exit |-> 0]

ClientInit ==
    /\ pc = "client_new"
    /\ cur = "none"
    /\ agent = [a \in Agents |-> NewAgent(LevelTask("help", a))]
    /\ inbox \in ClientLines
    /\ inbox0 = inbox
    /\ searcher = NoSearcher
    /\ usage = 0
    /\ client_MAX_USAGE = None
    /\ ret = NoClientCall

\* SearchClient.__init__: self.initial_state = self.parse_map(server_messages)
ClientParse ==
    /\ pc = "client_new"
    /\ ret' = [ret EXCEPT !.op = "parse_map",
                          !.parsed = parse_map(inbox).value,
                          !.exc = parse_map(inbox).exc]
    /\ pc' = IF parse_map(inbox).exc # "no" THEN "raised" ELSE "parsed"
    /\ UNCHANGED << cur, agent, inbox, inbox0, searcher, usage, client_MAX_USAGE >>

\* SearchClient.__init__: self.heuristic = dGraph(self.initial_state), whose
\* first use of the state is state.map
ClientHeuristic ==
    /\ pc = "parsed"
    /\ ret' = [ret EXCEPT !.op = "dGraph",
                          !.exc = IF ret.parsed.isNone THEN "AttributeError"
                                  ELSE "no"]
    /\ pc' = IF ret.parsed.isNone THEN "raised" ELSE "client"
    /\ UNCHANGED << cur, agent, inbox, inbox0, searcher, usage, client_MAX_USAGE >>

\* run_loop: solution, nodes_explored = client.search(); with None the run
\* ends by sys.exit(1), else the loop over the solution begins
ClientSearch ==
    /\ pc = "client"
    /\ \E solution \in Solutions :
          /\ ret' = [ret EXCEPT !.op = "search", !.solution = solution,
                                !.exit = IF solution.isNone THEN 1 ELSE 0]
          /\ pc' = IF solution.isNone THEN "exited"
                   ELSE IF solution.acts = << >> THEN "returned" ELSE "print"
    /\ UNCHANGED << cur, agent, inbox, inbox0, searcher, usage, client_MAX_USAGE >>

\* run_loop: print(state, flush=True) for the next state of the solution
ClientPrint ==
    /\ pc = "print"
    /\ ret' = [ret EXCEPT !.op = "print",
                          !.out = Append(@, ret.solution.acts[Len(ret.out) + 1])]
    /\ pc' = "readline"
    /\ UNCHANGED << cur, agent, inbox, inbox0, searcher, usage, client_MAX_USAGE >>

\* run_loop: response = server_messages.readline().rstrip(); break when it
\* has "false" in it, else on to the next state of the solution
ClientRead ==
    /\ pc = "readline"
    /\ \E response \in Responses :
          /\ ret' = [ret EXCEPT !.op = "readline", !.acks = Append(@, response)]
          /\ pc' = IF HasFalse(response) \/ Len(ret.out) = Len(ret.solution.acts)
                   THEN "returned" ELSE "print"
    /\ UNCHANGED << cur, agent, inbox, inbox0, searcher, usage, client_MAX_USAGE >>

ClientNext ==
    \/ ClientParse \/ ClientHeuristic \/ ClientSearch \/ ClientPrint
    \/ ClientRead

ClientSpec == ClientInit /\ [][ClientNext]_vars

\* C22: a level without its #end, #goal or #initial marker makes the parser
\* fail with ParseError, and no missing initial state is handed on to the
\* heuristic
C22_MalformedLevelRefused ==
    LET Has(marker) == \E i \in 1..Len(inbox0) : inbox0[i] = marker
    IN  /\ (ret.op = "parse_map"
               /\ ~(Has("#initial") /\ Has("#goal") /\ Has("#end")))
              => ret.exc = "ParseError"
        /\ ret.op = "dGraph" => ~ret.parsed.isNone

\* C23: the actions of the solution are emitted in plan order, one server
\* answer is read after each before the next is emitted, nothing is emitted
\* after the first answer with "false" in it, and with the solution None
\* nothing is emitted and the run exits with code 1
C23_StreamsPlanUntilFalse ==
    /\ Len(ret.out) <= Len(ret.solution.acts)
    /\ \A k \in 1..Len(ret.out) : ret.out[k] = ret.solution.acts[k]
    /\ Len(ret.acks) <= Len(ret.out)
    /\ Len(ret.out) <= Len(ret.acks) + 1
    /\ pc = "print" => Len(ret.acks) = Len(ret.out)
    /\ \A k \in 1..Len(ret.acks) :
          ret.acks[k] \in {"false", "[true, false]"} =>
              (Len(ret.out) = k /\ pc = "returned")
    /\ pc = "returned" =>
          \/ Len(ret.out) = Len(ret.solution.acts) /\ Len(ret.acks) = Len(ret.out)
          \/ /\ ret.acks # << >>
             /\ ret.acks[Len(ret.acks)] \in {"false", "[true, false]"}
    /\ (ret.op \in {"search", "print", "readline"} /\ ret.solution.isNone) =>
          (ret.out = << >> /\ ret.acks = << >> /\ pc = "exited" /\ ret.exit = 1)
    /\ ret.exit = 1 => ret.solution.isNone

\* the second of three actions was refused: two were emitted, two answers read
C23_Witness ==
    /\ pc = "returned"
    /\ Len(ret.solution.acts) = 3
    /\ Len(ret.out) = 2
    /\ ret.acks = << "true", "[true, false]" >>


----------------------------------------------------------------------------
(* heuristics.py: dGraph, the construction of the keypoint graph *)

\* the walls of a map of the given shape whose border is wall
Walled(rows, cols, inner) ==
    [rows |-> rows, cols |-> cols,
     walls |-> { rc \in (0..(rows - 1)) \X (0..(cols - 1)) :
                    \/ rc[1] \in {0, rows - 1}
                    \/ rc[2] \in {0, cols - 1} }
               \cup inner]

\* a room with a pillar, a room with a bar, a bent corridor, an empty room,
\* and a room beside a free cell closed in by walls
GraphMaps ==
    { Walled(5, 5, { << 2, 2 >> }),
      Walled(5, 6, { << 2, 2 >>, << 2, 3 >> }),
      Walled(5, 5, { << 2, 2 >>, << 2, 3 >>, << 3, 2 >>, << 3, 3 >> }),
      Walled(5, 5, { }),
      Walled(5, 6, { << 1, 3 >>, << 2, 3 >>, << 3, 3 >>, << 1, 4 >>, << 3, 4 >> }) }

\* self.dirs[dir]: east, south, west, north, twice over, so that an index
\* from -8 to 7 gives the direction of its remainder by 4
DirOf(dir) ==
    << << 0, 1 >>, << 1, 0 >>, << 0, -1 >>, << -1, 0 >> >>[((dir + 8) % 4) + 1]

\* findEdges, the loop `for j in range(0, 4)` from round j on, d being the
\* dGraph with its set explored and the registers of the walk (initPos, pos,
\* dir, prevDir, initDir, corners, isDone). addCorner: a free cell lets the
\* walk move there, and the cell left is a corner when dir - prevDir is -1;
\* a wall is added to explored
RECURSIVE TryDirs(_, _)
TryDirs(d, j) ==
    IF j > 4 THEN d
    ELSE LET w == d.walk
             dir == w.dir + 1
             newPos == << w.pos[1] + DirOf(dir)[1], w.pos[2] + DirOf(dir)[2] >>
         IN  IF newPos \notin d.map.walls /\ newPos \notin d.explored
             THEN [d EXCEPT
                     !.walk = [initPos |-> w.initPos,
                               pos |-> newPos,
                               dir |-> dir,
                               prevDir |-> (dir + 8) % 4,
                               initDir |-> IF w.initDir = -999
                                           THEN (dir + 8) % 4 ELSE w.initDir,
                               corners |-> IF dir - w.prevDir = -1
                                           THEN Append(w.corners, w.pos)
                                           ELSE w.corners,
                               isDone |-> /\ w.initPos = w.pos
                                          /\ (dir + 8) % 4 = w.initDir]]
             ELSE TryDirs([d EXCEPT !.walk.dir = dir,
                                    !.explored = IF newPos \in d.map.walls
                                                 THEN @ \cup {newPos} ELSE @],
                          j + 1)

\* one round of `while not isDone` in findEdges: the loop over the four
\* directions, then dir = prevDir - 2
WalkRound(d) ==
    [TryDirs(d, 1) EXCEPT !.walk.dir = TryDirs(d, 1).walk.prevDir - 2]

\* the cell (row, col) that the loops of build_graph reach at step number k
ScanCell(map, k) ==
    << 1 + ((k - 1) % (map.rows - 1)), 1 + ((k - 1) \div (map.rows - 1)) >>

\* generateGraph: the first corner set is turned by one place, then every two
\* corners that follow each other in a set are joined both ways by an edge
\* weighted with their distance
GraphOf(cornerSets) ==
    LET turned == [cornerSets EXCEPT
                     ![1] = << cornerSets[1][Len(cornerSets[1])] >>
                            \o SubSeq(cornerSets[1], 1, Len(cornerSets[1]) - 1)]
        pairs == UNION { { << turned[s][i], turned[s][i + 1] >> :
                              i \in 1..(Len(turned[s]) - 1) } :
                         s \in 1..Len(turned) }
    IN  UNION { { << uv[1], uv[2], manha_dist(uv[1], uv[2]) >>,
                  << uv[2], uv[1], manha_dist(uv[1], uv[2]) >> } :
                uv \in { x \in pairs : x[1] # x[2] } }

\* the corners of the corner sets, each once, in the order they were found
\* (uniqueCorners is a list made of a set)
RECURSIVE Unique(_)
Unique(s) ==
    IF s = << >> THEN << >>
    ELSE LET NotLast(x) == x # s[Len(s)]
         IN  Unique(SelectSeq(SubSeq(s, 1, Len(s) - 1), NotLast)) \o << s[Len(s)] >>

\* no query of the graph yet: the lists currentPath and prevKeypoints of
\* the state are None. anchoredAt records, for each path, the two positions
\* findBestKeyPoint was last called with; anchors and GTemp are the keypoints
\* and the graph the last query searched
NoGraphCall ==
    [op |-> "none", exc |-> "no", n |-> 0, pathId |-> 0, cached |-> FALSE,
     isNone |-> TRUE, currentPath |-> << >>, prevKeypoints |-> << >>,
     anchoredAt |-> << >>, anchors |-> << << >>, << >> >>, GTemp |-> {},
     length |-> 0]

\* dGraph(state) at the start of build_graph: the border walls but those of
\* the last column are explored
GraphInit ==
    /\ pc = "build_graph"
    /\ cur = "none"
    /\ agent = [a \in Agents |-> NewAgent(LevelTask("help", a))]
    /\ inbox = << >>
    /\ inbox0 = << >>
    /\ \E map \in GraphMaps :
          searcher = [built |-> FALSE, map |-> map, scan |-> 1,
                      explored |-> { rc \in map.walls :
                                        \/ rc[1] \in {0, map.rows - 1}
                                        \/ rc[2] = 0 },
                      cornerSets |-> << >>, graph |-> {}, uniqueCorners |-> << >>,
                      poses |-> << >>,
                      walk |-> [initPos |-> << 0, 0 >>, pos |-> << 0, 0 >>,
                                dir |-> -1, prevDir |-> 0, initDir |-> -999,
                                corners |-> << >>, isDone |-> TRUE]]
    /\ usage = 0
    /\ client_MAX_USAGE = None
    /\ ret = NoGraphCall

\* build_graph: one step of the loops over col and row; a wall cell that is
\* not explored and has a free cell to its west starts findEdges there
build_graph ==
    /\ pc = "build_graph"
    /\ searcher.scan <= (searcher.map.rows - 1) * (searcher.map.cols - 1)
    /\ LET rc == ScanCell(searcher.map, searcher.scan)
           freePos == << rc[1], rc[2] - 1 >>
       IN  IF rc \in searcher.map.walls /\ freePos \notin searcher.map.walls
              /\ rc \notin searcher.explored
           THEN /\ searcher' = [searcher EXCEPT
                                  !.walk = [initPos |-> freePos, pos |-> freePos,
                                            dir |-> -1, prevDir |-> 0,
                                            initDir |-> -999, corners |-> << >>,
                                            isDone |-> FALSE]]
                /\ pc' = "findEdges"
           ELSE /\ searcher' = [searcher EXCEPT !.scan = @ + 1]
                /\ pc' = "build_graph"
    /\ UNCHANGED << cur, agent, inbox, inbox0, usage, client_MAX_USAGE, ret >>

\* findEdges: one round of the while loop; when isDone the corners are
\* returned, build_graph keeps them if there are any and goes on
findEdges ==
    /\ pc = "findEdges"
    /\ LET d == WalkRound(searcher)
       IN  /\ searcher' = [d EXCEPT
                             !.cornerSets = IF d.walk.isDone /\ d.walk.corners # << >>
                                            THEN Append(@, d.walk.corners) ELSE @,
                             !.scan = IF d.walk.isDone THEN @ + 1 ELSE @]
           /\ pc' = IF d.walk.isDone THEN "build_graph" ELSE "findEdges"
    /\ UNCHANGED << cur, agent, inbox, inbox0, usage, client_MAX_USAGE, ret >>

\* build_graph: G = self.generateGraph(copy.copy(map)), which fails on
\* cornerSets[0] when no corner set was found
generateGraph ==
    /\ pc = "build_graph"
    /\ searcher.scan > (searcher.map.rows - 1) * (searcher.map.cols - 1)
    /\ IF searcher.cornerSets = << >>
       THEN /\ ret' = [ret EXCEPT !.op = "dGraph", !.exc = "IndexError"]
            /\ pc' = "raised"
            /\ UNCHANGED searcher
       ELSE /\ ret' = [ret EXCEPT !.op = "dGraph"]
            /\ pc' = "dGraph"
            /\ searcher' = [searcher EXCEPT
                              !.built = TRUE,
                              !.cornerSets[1] =
                                  << @[Len(@)] >> \o SubSeq(@, 1, Len(@) - 1),
                              !.uniqueCorners = Unique(Concat(searcher.cornerSets)),
                              !.graph = GraphOf(searcher.cornerSets)]
    /\ UNCHANGED << cur, agent, inbox, inbox0, usage, client_MAX_USAGE >>

\* the number of states that are scored
MaxQueries == 2

\* the positions the agent and the box are given in the queries: cells that
\* are free in every map; the goal is at the last of them
QueryCells == { << 1, 1 >>, << 1, 2 >>, << 1, 3 >>, << 3, 1 >> }

\* getValidKeypoint: the keypoint is valid for pos when no wall is met going
\* along the column of pos to the row of kp and then along that row to kp
getValidKeypoint(map, pos, kp) ==
    LET Between(x, y) == { z \in 0..(map.rows + map.cols) :
                              \/ x < z /\ z <= y
                              \/ y <= z /\ z < x }
    IN  /\ \A r \in Between(pos[1], kp[1]) : << r, pos[2] >> \notin map.walls
        /\ \A c \in Between(pos[2], kp[2]) : << kp[1], c >> \notin map.walls

\* findBestKeyPoint: the corners sorted by their distance to pos (the sort
\* keeps the order of corners equally far), the first four valid ones
findBestKeyPoint(d, pos) ==
    LET At(n) == LET Far(kp) == manha_dist(pos, kp) = n - 1
                 IN  SelectSeq(d.uniqueCorners, Far)
        sortedKp == Concat([n \in 1..(d.map.rows + d.map.cols) |-> At(n)])
        IsValid(kp) == getValidKeypoint(d.map, pos, kp)
        validKps == SelectSeq(sortedKp, IsValid)
    IN  SubSeq(validKps, 1, IF Len(validKps) < 4 THEN Len(validKps) ELSE 4)

\* the paths of G that start as one of the given paths and visit no node twice, of at
\* most k more edges
RECURSIVE SimplePaths(_, _, _)
SimplePaths(G, paths, k) ==
    IF k = 0 THEN paths
    ELSE SimplePaths(G,
                     paths \cup { Append(x[2], x[1][2]) :
                                    x \in { y \in G \X paths :
                                              /\ y[1][1] = y[2][Len(y[2])]
                                              /\ \A i \in 1..Len(y[2]) :
                                                    y[2][i] # y[1][2] } },
                     k - 1)

\* nx.bidirectional_dijkstra(G, source, target): the results it can give,
\* a shortest path and its length, or the exception for a node that is not
\* in G or for no path
bidirectional_dijkstra(G, source, target) ==
    LET nodes == { e[1] : e \in G } \cup { e[2] : e \in G }
        Weight(u, v) == (CHOOSE e \in G : e[1] = u /\ e[2] = v)[3]
        Length(path) == SumSeq([i \in 1..(Len(path) - 1) |->
                                   Weight(path[i], path[i + 1])])
        paths == { path \in SimplePaths(G, { << source >> }, Cardinality(nodes)) :
                      path[Len(path)] = target }
    IN  IF source \notin nodes \/ target \notin nodes
        THEN { [exc |-> "NodeNotFound", length |-> 0, path |-> << >>] }
        ELSE IF paths = {}
        THEN { [exc |-> "NetworkXNoPath", length |-> 0, path |-> << >>] }
        ELSE { [exc |-> "no", length |-> Length(path), path |-> path] :
               path \in { q \in paths : \A r \in paths : Length(q) <= Length(r) } }

\* findPathPart: the keypoints [startKps, endKps] the query joins to its two
\* positions. With a path kept from an earlier query they are the ones in
\* state.prevKeypoints, but for the two changes to startKps; without one
\* they come from findBestKeyPoint
QueryKeypoints(d, st, pathId) ==
    LET startPos == d.poses[pathId][1]
        endPos == d.poses[pathId][2]
        currentPath == st.currentPath[pathId]
        prev == st.prevKeypoints[pathId]
    IN  IF ~currentPath.isNone
        THEN << IF Len(currentPath.path) > 2 /\ currentPath.path[2] = startPos
                THEN << currentPath.path[2], currentPath.path[3] >>
                ELSE IF Len(currentPath.path) = 2
                THEN Append(prev[1], endPos)
                ELSE prev[1],
                prev[2] >>
        ELSE << findBestKeyPoint(d, startPos), findBestKeyPoint(d, endPos) >>

\* findPathPart: GTemp, the deep copy of self.graph with an edge from
\* startPos to each of startKps and from each of endKps to endPos
QueryGraph(graph, startPos, endPos, kps) ==
    graph
    \cup { << startPos, kps[1][i], manha_dist(startPos, kps[1][i]) >> :
           i \in 1..Len(kps[1]) }
    \cup { << kps[2][i], endPos, manha_dist(endPos, kps[2][i]) >> :
           i \in 1..Len(kps[2]) }

GraphAfterQuery_shared(graph, GTemp) == GTemp

\* self.graph after a query: the edges were added to the copy GTemp, which
\* is deleted
GraphAfterQuery(graph, GTemp) == graph

\* initializeGraphAttributes(state, parts), parts being the pairs agent to
\* box and box to goal as __call__ makes them; the two queries follow
initializeGraphAttributes ==
    /\ pc = "dGraph"
    /\ ret.n < MaxQueries
    /\ \E agt \in QueryCells, box \in QueryCells :
          LET parts == << << agt, box >>, << box, << 3, 1 >> >> >>
          IN  /\ searcher' = [searcher EXCEPT !.poses = parts]
              /\ pc' = "findPathPart0"
              /\ ret' = IF ret.isNone
                        THEN [ret EXCEPT
                                !.op = "initializeGraphAttributes",
                                !.n = @ + 1,
                                !.isNone = FALSE,
                                !.currentPath =
                                    [i \in 1..2 |-> [isNone |-> TRUE, path |-> << >>]],
                                !.prevKeypoints =
                                    [i \in 1..2 |-> << << >>, << >> >>],
                                !.anchoredAt =
                                    [i \in 1..2 |-> << << 0, 0 >>, << 0, 0 >> >>]]
                        ELSE [ret EXCEPT !.op = "initializeGraphAttributes",
                                         !.n = @ + 1]
    /\ UNCHANGED << cur, agent, inbox, inbox0, usage, client_MAX_USAGE >>

\* findPathPart(state, pathId), for the first pair and then the second
findPathPart ==
    /\ pc \in {"findPathPart0", "findPathPart1"}
    /\ \E pathId \in {IF pc = "findPathPart0" THEN 1 ELSE 2} :
          LET startPos == searcher.poses[pathId][1]
              endPos == searcher.poses[pathId][2]
              cached == ~ret.currentPath[pathId].isNone
              kps == QueryKeypoints(searcher, ret, pathId)
              GTemp == QueryGraph(searcher.graph, startPos, endPos, kps)
          IN  \E found \in bidirectional_dijkstra(GTemp, startPos, endPos) :
                 /\ searcher' = [searcher EXCEPT
                                   !.graph = GraphAfterQuery(@, GTemp)]
                 /\ ret' = [ret EXCEPT
                              !.op = "findPathPart",
                              !.exc = found.exc,
                              !.pathId = pathId,
                              !.cached = cached,
                              !.anchors = kps,
                              !.GTemp = GTemp,
                              !.length = found.length,
                              !.anchoredAt[pathId] =
                                  IF cached THEN @ ELSE << startPos, endPos >>,
                              !.prevKeypoints[pathId] =
                                  IF found.exc = "no" \/ ~cached THEN kps
                                  ELSE IF Len(ret.currentPath[pathId].path) = 2
                                  THEN << Append(@[1], endPos), @[2] >>
                                  ELSE @,
                              !.currentPath[pathId] =
                                  IF found.exc = "no"
                                  THEN [isNone |-> FALSE, path |-> found.path]
                                  ELSE @]
                 /\ pc' = IF found.exc # "no" THEN "raised"
                          ELSE IF pathId = 1 THEN "findPathPart1" ELSE "dGraph"
    /\ UNCHANGED << cur, agent, inbox, inbox0, usage, client_MAX_USAGE >>

GraphNext ==
    \/ build_graph
    \/ findEdges
    \/ generateGraph
    \/ initializeGraphAttributes
    \/ findPathPart

GraphSpec == GraphInit /\ [][GraphNext]_vars

\* the steps of the construction are taken as long as they can be
FairGraphSpec ==
    GraphSpec /\ WF_vars(build_graph) /\ WF_vars(findEdges) /\ WF_vars(generateGraph)

\* C26: a query of findPathPart leaves the keypoint graph self.graph as it
\* was built, nodes, edges and weights: the edges that join the two positions
\* to their keypoints are only in the copy the query searches
C26_QueriesKeepGraph ==
    [][searcher.built => searcher'.graph = searcher.graph]_vars

\* a later query of a state has returned a path over edges that are in its
\* copy and not in self.graph
C26_Witness ==
    /\ ret.op = "findPathPart"
    /\ ret.exc = "no"
    /\ ret.cached
    /\ ret.length > 0
    /\ ret.GTemp # searcher.graph
    /\ \E i \in 1..(Len(ret.currentPath[ret.pathId].path) - 1) :
          \A e \in searcher.graph :
             << e[1], e[2] >> # << ret.currentPath[ret.pathId].path[i],
                                   ret.currentPath[ret.pathId].path[i + 1] >>

\* C28: a query that finds a path kept from an earlier query joins an
\* endpoint to the kept keypoints only if the endpoint is where it was when
\* they were computed; for an endpoint that has moved the keypoints are those
\* findBestKeyPoint gives for the new position (as sets: neither their order
\* nor a keypoint given twice counts)
C28_AnchorsFollowEndpoints ==
    [][(pc \in {"findPathPart0", "findPathPart1"} /\ ret'.cached) =>
          LET startPos == searcher.poses[ret'.pathId][1]
              endPos == searcher.poses[ret'.pathId][2]
              at == ret.anchoredAt[ret'.pathId]
              Kps(s) == { s[i] : i \in 1..Len(s) }
          IN  /\ startPos # at[1] =>
                    Kps(ret'.anchors[1]) = Kps(findBestKeyPoint(searcher, startPos))
              /\ endPos # at[2] =>
                    Kps(ret'.anchors[2]) = Kps(findBestKeyPoint(searcher, endPos))]_vars

\* C29: the walk of findEdges comes to its end from every free cell
\* build_graph starts it at, on every map whose border is wall
C29_ContourEnds == (pc = "findEdges") ~> (pc # "findEdges")

\* C31: when an agent whose status is not Fail consumes a message after
\* add_task(t) has merged a task of its own color into it, the task it plans
\* from afterwards still holds every goal of t
C31_ConsumeKeepsAddedGoals ==
    [][(/\ ret.op = "add_task" /\ ret.exc = "no"
        /\ ret.arg.goals[1].items[1].color = agent[cur].color
        /\ ret'.op = "consume_message" /\ ret'.exc = "no"
        /\ agent[cur].status # STATUS.fail) =>
        LET Held(s) ==
                { << s.goals[x[1]].key, s.goals[x[1]].items[x[2]] >> :
                    x \in { y \in (1..Len(s.goals)) \X (1..2) :
                               y[2] <= Len(s.goals[y[1]].items) } }
        IN  /\ Held(ret.arg) \subseteq Held(agent[cur].task)
            /\ Held(ret.arg) \subseteq Held(agent'[cur].task)]_vars

\* C32: EasyRule writes h = 0 on a state in which every goal cell holds a box
\* of the goal's key and color, also when more boxes of that key lie off the
\* goals and there is an agent of the goal's color
C32_EasyRuleZeroWhenSolved ==
    (/\ ret.op = "heuristic" /\ ret.exc = "no"
     /\ agent[cur].heuristic.kind = "EasyRule"
     /\ \A i \in 1..Len(ret.arg.goals) :
           \A j \in 1..Len(ret.arg.goals[i].items) :
              \E b \in 1..Len(getBoxesByKey(ret.arg, ret.arg.goals[i].key)) :
                 getBoxesByKey(ret.arg, ret.arg.goals[i].key)[b]
                    = ret.arg.goals[i].items[j]) =>
        ret.value.h = 0
====
